---- MODULE Spec2Model ----
(***************************************************************************)
(* Atlas DSL: the parser (engines/dsl/atlas_parser.py) and the executor    *)
(* (engines/dsl/atlas_executor.py).                                        *)
(*                                                                         *)
(* A Python str is a sequence of one-character strings, so that prefixes,  *)
(* slices, strip() and the regular expressions of the source are computed  *)
(* character by character.  None is the sequence <<"None">>, which no str  *)
(* equals (its only element is not one character).  Message texts are      *)
(* sequences too: fixed labels (in English) followed by the characters     *)
(* that the f-string interpolates.                                         *)
(***************************************************************************)
EXTENDS Integers, Sequences, FiniteSets, TLC

VARIABLES
    lines,        \* content.split('\n') of the script handed to parse_content
    clock,        \* what datetime.now() / time.time() reads
    macro,        \* the AtlasMacro parse_content returned, NoMacro before
    pc,           \* "start", "parsed", "running", "done"
    variables,    \* AtlasExecutor.variables: the live Variable Store
    stack,        \* the active loops: execute_macro at the bottom, then blocks
    trace,        \* history: every node entered, executed and left, in order
    result,       \* the ExecutionResult execute_macro returned, NoResult before
    text,         \* argument of a direct _substitute_variables call
    parts,        \* the pieces the argument was assembled from
    substituted,  \* what that call returned, None before
    outline,      \* the nodes the script was written from, <<>> when not kept
    executions,   \* how many times execute_macro was called on the executor
    finder,       \* the find_template call of the TemplateMatcher
    template_cache, \* TemplateMatcher.template_cache: path -> decoded image
    loads,        \* history: every _load_template call, in order
    batch,        \* the execute_atlas_file call of a SimpleExecutorEnhanced
    second        \* a second AtlasExecutor and the macro it executes

vars == <<lines, clock, macro, pc, variables, stack, trace, result,
          text, parts, substituted, outline, executions, finder,
          template_cache, loads, batch, second>>

(***************************************************************************)
(* Bounds                                                                  *)
(***************************************************************************)
MaxRepeat == 2
MaxParts == 3

(***************************************************************************)
(* Python str operations                                                   *)
(***************************************************************************)
None == <<"None">>

Whitespace == {" ", "\t"}

Digits == {"0", "1", "2", "3", "4", "5", "6", "7", "8", "9"}

WordChars ==
    Digits \cup {"_"} \cup
    {"a", "b", "c", "d", "e", "f", "g", "h", "i", "j", "k", "l", "m", "n",
     "o", "p", "q", "r", "s", "t", "u", "v", "w", "x", "y", "z",
     "A", "B", "C", "D", "E", "F", "G", "H", "I", "J", "K", "L", "M", "N",
     "O", "P", "Q", "R", "S", "T", "U", "V", "W", "X", "Y", "Z"}

DigitVal(c) ==
    CASE c = "0" -> 0 [] c = "1" -> 1 [] c = "2" -> 2 [] c = "3" -> 3
      [] c = "4" -> 4 [] c = "5" -> 5 [] c = "6" -> 6 [] c = "7" -> 7
      [] c = "8" -> 8 [] c = "9" -> 9

DigitChar(n) == CHOOSE c \in Digits : DigitVal(c) = n

\* str(n) for a natural number
RECURSIVE NatStr(_)
NatStr(n) ==
    IF n < 10 THEN <<DigitChar(n)>>
    ELSE NatStr(n \div 10) \o <<DigitChar(n % 10)>>

\* s[i:]  (i is Python's 0-based index)
From(s, i) == SubSeq(s, i + 1, Len(s))

StartsWith(s, p) == Len(s) >= Len(p) /\ SubSeq(s, 1, Len(p)) = p

EndsWith(s, p) ==
    Len(s) >= Len(p) /\ SubSeq(s, Len(s) - Len(p) + 1, Len(s)) = p

RECURSIVE LStripChars(_, _)
LStripChars(s, cs) ==
    IF s # <<>> /\ Head(s) \in cs THEN LStripChars(Tail(s), cs) ELSE s

RECURSIVE RStripChars(_, _)
RStripChars(s, cs) ==
    IF s # <<>> /\ s[Len(s)] \in cs
    THEN RStripChars(SubSeq(s, 1, Len(s) - 1), cs)
    ELSE s

LStrip(s) == LStripChars(s, Whitespace)
RStrip(s) == RStripChars(s, Whitespace)
Strip(s) == LStrip(RStrip(s))

\* s.find(p): the 1-based position of the first occurrence of p, 0 if none
RECURSIVE FindFrom(_, _, _)
FindFrom(s, p, i) ==
    IF i + Len(p) - 1 > Len(s) THEN 0
    ELSE IF SubSeq(s, i, i + Len(p) - 1) = p THEN i
    ELSE FindFrom(s, p, i + 1)

Contains(s, p) == FindFrom(s, p, 1) # 0

\* s.split(p, 1)[1], for s that contains p
AfterFirst(s, p) == SubSeq(s, FindFrom(s, p, 1) + Len(p), Len(s))

\* the position after the longest run of characters of cs that starts at i
RECURSIVE RunEnd(_, _, _)
RunEnd(s, i, cs) ==
    IF i <= Len(s) /\ s[i] \in cs THEN RunEnd(s, i + 1, cs) ELSE i

\* int() of a string of decimal digits
RECURSIVE DigitsVal(_)
DigitsVal(s) ==
    IF s = <<>> THEN 0
    ELSE 10 * DigitsVal(SubSeq(s, 1, Len(s) - 1)) + DigitVal(s[Len(s)])

IsDigits(s) == s # <<>> /\ \A i \in 1..Len(s) : s[i] \in Digits

(***************************************************************************)
(* The regular expressions of the parser.  re.match anchors at the start   *)
(* only.  Each returns [ok, groups]; a position is 1-based.                *)
(***************************************************************************)
NoMatch == [ok |-> FALSE, groups |-> <<>>, next |-> 0]

\* "([^"]*)" at position i; q is the position of the closing quote, 0 if none
QuotedUpTo(s, i, q) ==
    IF q = 0 THEN NoMatch
    ELSE [ok |-> TRUE, groups |-> <<SubSeq(s, i + 1, q - 1)>>, next |-> q + 1]

MatchQuoted(s, i) ==
    IF i > Len(s) \/ s[i] # "\"" THEN NoMatch
    ELSE QuotedUpTo(s, i, FindFrom(s, <<"\"">>, i + 1))

\* \s+<key>"([^"]*)" at position i; j is the position after the whitespace
MatchKeyQuoted(s, i, j, key) ==
    IF j = i \/ ~StartsWith(From(s, j - 1), key) THEN NoMatch
    ELSE MatchQuoted(s, j + Len(key))

\* <word>\s+<key>"([^"]*)" at the start of s (key may be empty)
MatchWordQuoted(s, word, key) ==
    IF ~StartsWith(s, word) THEN NoMatch
    ELSE MatchKeyQuoted(s, Len(word) + 1,
                        RunEnd(s, Len(word) + 1, Whitespace), key)

\* \s*(\d+)\s* at position i: [ok, group, next]; d0, d1 delimit the digits
NumberBetween(s, d0, d1) ==
    IF d1 > d0
    THEN [ok |-> TRUE, groups |-> <<SubSeq(s, d0, d1 - 1)>>,
          next |-> RunEnd(s, d1, Whitespace)]
    ELSE NoMatch

MatchNumber(s, i) ==
    NumberBetween(s, RunEnd(s, i, Whitespace),
                  RunEnd(s, RunEnd(s, i, Whitespace), Digits))

CharAt(s, i, c) == i <= Len(s) /\ s[i] = c

\* ,\s*(\d+)\s*\) after the first number x
CoordsAfterX(s, x, y) ==
    IF y.ok /\ CharAt(s, y.next, ")")
    THEN [ok |-> TRUE, groups |-> x.groups \o y.groups, next |-> y.next + 1]
    ELSE NoMatch

CoordsFromX(s, x) ==
    IF x.ok /\ CharAt(s, x.next, ",")
    THEN CoordsAfterX(s, x, MatchNumber(s, x.next + 1))
    ELSE NoMatch

\* \(\s*(\d+)\s*,\s*(\d+)\s*\) at position a
CoordsAt(s, a) ==
    IF CharAt(s, a, "(") THEN CoordsFromX(s, MatchNumber(s, a + 1))
    ELSE NoMatch

\* click\s*\(\s*(\d+)\s*,\s*(\d+)\s*\)
MatchClickCoords(s) ==
    IF ~StartsWith(s, <<"c","l","i","c","k">>) THEN NoMatch
    ELSE CoordsAt(s, RunEnd(s, 6, Whitespace))

JoinMatches(m1, m2) ==
    IF m2.ok
    THEN [ok |-> TRUE, groups |-> m1.groups \o m2.groups, next |-> m2.next]
    ELSE NoMatch

\* \s+text="([^"]*)" after the match m1 of the selector
TextAfterSelector(s, m1) ==
    IF m1.ok
    THEN JoinMatches(m1,
             MatchKeyQuoted(s, m1.next, RunEnd(s, m1.next, Whitespace),
                            <<"t","e","x","t","=">>))
    ELSE NoMatch

\* selenium_type\s+selector="([^"]*)"\s+text="([^"]*)"
MatchSeleniumType(s) ==
    TextAfterSelector(s, MatchWordQuoted(s, <<"s","e","l","e","n","i","u","m","_","t","y","p","e">>, <<"s","e","l","e","c","t","o","r","=">>))

\* (\w+)="([^"]*)" : the name is s[n0 .. n1 - 1]
NameEqualsQuoted(s, n0, n1) ==
    IF n1 > n0 /\ CharAt(s, n1, "=")
    THEN JoinMatches([ok |-> TRUE, groups |-> <<SubSeq(s, n0, n1 - 1)>>,
                      next |-> n1],
                     MatchQuoted(s, n1 + 1))
    ELSE NoMatch

NameFrom(s, i, n0) ==
    IF n0 = i THEN NoMatch
    ELSE NameEqualsQuoted(s, n0, RunEnd(s, n0, WordChars))

\* set_variable\s+(\w+)="([^"]*)"
MatchSetVariable(s) ==
    IF ~StartsWith(s, <<"s","e","t","_","v","a","r","i","a","b","l","e">>) THEN NoMatch
    ELSE NameFrom(s, 13, RunEnd(s, 13, Whitespace))

(***************************************************************************)
(* AtlasCommand, AtlasBlock, AtlasMacro                                    *)
(***************************************************************************)
\* parameters={}: the dict with no key
NoParameters == <<>>

AtlasCommand(command_type, target, value, parameters, line_number, raw_line) ==
    [node |-> "command", command_type |-> command_type, target |-> target,
     value |-> value, parameters |-> parameters, line_number |-> line_number,
     raw_line |-> raw_line,
     indent_level |-> Len(raw_line) - Len(LStrip(raw_line))]

AtlasBlock(block_type, condition, commands, line_number, indent_level) ==
    [node |-> "block", block_type |-> block_type, condition |-> condition,
     commands |-> commands, line_number |-> line_number,
     indent_level |-> indent_level]

\* what a branch of _parse_single_command that returns nothing returns
NoCommand == [node |-> "None"]

NoMacro == [node |-> "None"]

(***************************************************************************)
(* AtlasParser._parse_single_command                                       *)
(***************************************************************************)
\* variant: a command is made whether or not the pattern matched
ValueCommandUnmatched(m, command_type, line_number, raw_line) ==
    IF m.ok
    THEN AtlasCommand(command_type, None, m.groups[1], NoParameters,
                      line_number, raw_line)
    ELSE AtlasCommand(command_type, None, None, NoParameters,
                      line_number, raw_line)

ValueCommand(m, command_type, line_number, raw_line) ==
    IF m.ok
    THEN AtlasCommand(command_type, None, m.groups[1], NoParameters,
                      line_number, raw_line)
    ELSE NoCommand

\* the branches `type "..."`, `system_command "..."`, `log "..."`
ParseQuotedValue(line, word, command_type, line_number, raw_line) ==
    ValueCommand(MatchWordQuoted(line, word, <<>>), command_type,
                 line_number, raw_line)

TargetCommand(m, command_type, line_number, raw_line) ==
    IF m.ok
    THEN AtlasCommand(command_type, m.groups[1], None, NoParameters,
                      line_number, raw_line)
    ELSE NoCommand

\* the branches `selenium_init url="..."`, `selenium_click selector="..."`
ParseQuotedTarget(line, word, key, command_type, line_number, raw_line) ==
    TargetCommand(MatchWordQuoted(line, word, key), command_type,
                  line_number, raw_line)

\* the branch `click ...`
ClickCommand(coord_match, line, line_number, raw_line) ==
    IF coord_match.ok
    THEN AtlasCommand("click", None, None,
             [x |-> DigitsVal(coord_match.groups[1]),
              y |-> DigitsVal(coord_match.groups[2]),
              type |-> "coordinates"],
             line_number, raw_line)
    ELSE AtlasCommand("click", Strip(From(line, 6)), None,
             [type |-> "template"], line_number, raw_line)

\* the branches `selenium_type ...` and `set_variable ...`
TargetValueCommand(m, command_type, line_number, raw_line) ==
    IF m.ok
    THEN AtlasCommand(command_type, m.groups[1], m.groups[2], NoParameters,
                      line_number, raw_line)
    ELSE NoCommand

_parse_single_command(line, line_number, raw_line) ==
    IF Strip(line) = <<>> THEN NoCommand
    ELSE IF StartsWith(line, <<"o","p","e","n"," ">>) THEN
        AtlasCommand("open", Strip(From(line, 5)), None, NoParameters,
                     line_number, raw_line)
    ELSE IF StartsWith(line, <<"c","l","i","c","k"," ">>) THEN
        ClickCommand(MatchClickCoords(line), line, line_number, raw_line)
    ELSE IF StartsWith(line, <<"t","y","p","e"," ">>) THEN
        ParseQuotedValue(line, <<"t","y","p","e">>, "type", line_number, raw_line)
    ELSE IF StartsWith(line, <<"w","a","i","t"," ">>) THEN
        AtlasCommand("wait", None, Strip(From(line, 5)), NoParameters,
                     line_number, raw_line)
    ELSE IF StartsWith(line, <<"p","r","e","s","s"," ">>) THEN
        AtlasCommand("press", Strip(From(line, 6)), None, NoParameters,
                     line_number, raw_line)
    ELSE IF StartsWith(line, <<"h","o","t","k","e","y"," ">>) THEN
        AtlasCommand("hotkey", Strip(From(line, 7)), None, NoParameters,
                     line_number, raw_line)
    ELSE IF StartsWith(line, <<"s","e","l","e","n","i","u","m","_","i","n","i","t"," ">>) THEN
        ParseQuotedTarget(line, <<"s","e","l","e","n","i","u","m","_","i","n","i","t">>, <<"u","r","l","=">>, "selenium_init",
                          line_number, raw_line)
    ELSE IF StartsWith(line, <<"s","e","l","e","n","i","u","m","_","c","l","i","c","k"," ">>) THEN
        ParseQuotedTarget(line, <<"s","e","l","e","n","i","u","m","_","c","l","i","c","k">>, <<"s","e","l","e","c","t","o","r","=">>,
                          "selenium_click", line_number, raw_line)
    ELSE IF StartsWith(line, <<"s","e","l","e","n","i","u","m","_","t","y","p","e"," ">>) THEN
        TargetValueCommand(MatchSeleniumType(line), "selenium_type",
                           line_number, raw_line)
    ELSE IF line = <<"s","e","l","e","n","i","u","m","_","c","l","o","s","e">> THEN
        AtlasCommand("selenium_close", None, None, NoParameters,
                     line_number, raw_line)
    ELSE IF StartsWith(line, <<"s","e","t","_","v","a","r","i","a","b","l","e"," ">>) THEN
        TargetValueCommand(MatchSetVariable(line), "set_variable",
                           line_number, raw_line)
    ELSE IF StartsWith(line, <<"s","y","s","t","e","m","_","c","o","m","m","a","n","d"," ">>) THEN
        ParseQuotedValue(line, <<"s","y","s","t","e","m","_","c","o","m","m","a","n","d">>, "system_command",
                         line_number, raw_line)
    ELSE IF StartsWith(line, <<"l","o","g"," ">>) THEN
        ParseQuotedValue(line, <<"l","o","g">>, "log", line_number, raw_line)
    ELSE IF line = <<"a","b","o","r","t">> THEN
        AtlasCommand("abort", None, None, NoParameters, line_number, raw_line)
    ELSE
        AtlasCommand("comment", None, line, NoParameters, line_number, raw_line)

(***************************************************************************)
(* AtlasParser._parse_block and _parse_commands.  Indexes into lines are   *)
(* Python's (0-based): lines[i] is lines[i + 1] here.                      *)
(***************************************************************************)
Indent(line) == Len(line) - Len(LStrip(line))

StartsWithAny(s, prefixes) == \E p \in prefixes : StartsWith(s, p)

TopBlockPrefixes == {<<"i","f"," ">>, <<"r","e","p","e","a","t"," ">>, <<"w","h","i","l","e"," ">>, <<"f","o","r","_","e","a","c","h"," ">>, <<"t","r","y",":">>}

NestedBlockPrefixes == {<<"i","f"," ">>, <<"r","e","p","e","a","t"," ">>, <<"w","h","i","l","e"," ">>, <<"t","r","y",":">>}

BlockTerminators == {<<"e","n","d">>, <<"c","a","t","c","h",":">>, <<"e","l","s","e",":">>}

RECURSIVE _parse_block(_, _)
RECURSIVE ParseBlockBody(_, _, _, _)

BodyEnds(commands, i) == [commands |-> commands, i |-> i]

AppendCommand(commands, command) ==
    IF command # NoCommand THEN Append(commands, command) ELSE commands

\* `nested_block, consumed = self._parse_block(lines, i)` and what follows
AfterNestedBlock(ls, i, indent_level, commands, nested) ==
    ParseBlockBody(ls, i + nested.consumed_lines, indent_level,
                   Append(commands, nested.block))

\* one pass of the while loop of _parse_block, on a line that is not blank
BlockBodyLine(ls, i, indent_level, commands, line, clean_line) ==
    IF Indent(line) <= indent_level /\ clean_line \in BlockTerminators
    THEN BodyEnds(commands, i)
    ELSE IF Indent(line) > indent_level
    THEN IF StartsWithAny(clean_line, NestedBlockPrefixes)
         THEN AfterNestedBlock(ls, i, indent_level, commands,
                               _parse_block(ls, i))
         ELSE ParseBlockBody(ls, i + 1, indent_level,
                  AppendCommand(commands,
                      _parse_single_command(clean_line, i + 1, line)))
    ELSE BodyEnds(commands, i)

BlockBodyAt(ls, i, indent_level, commands, line) ==
    IF Strip(line) = <<>>
    THEN ParseBlockBody(ls, i + 1, indent_level, commands)
    ELSE BlockBodyLine(ls, i, indent_level, commands, line, Strip(line))

\* the while loop of _parse_block from index i: [commands, i] when it ends
ParseBlockBody(ls, i, indent_level, commands) ==
    IF i >= Len(ls) THEN BodyEnds(commands, i)
    ELSE BlockBodyAt(ls, i, indent_level, commands, RStrip(ls[i + 1]))

\* variant: a block that is none of if, repeat, try is taken for an if
BlockTypeOrIf(start_line) ==
    IF StartsWith(start_line, <<"r","e","p","e","a","t"," ">>) THEN "repeat"
    ELSE IF StartsWith(start_line, <<"t","r","y",":">>) THEN "try"
    ELSE "if"

BlockType(start_line) ==
    IF StartsWith(start_line, <<"i","f"," ">>) THEN "if"
    ELSE IF StartsWith(start_line, <<"r","e","p","e","a","t"," ">>) THEN "repeat"
    ELSE IF StartsWith(start_line, <<"t","r","y",":">>) THEN "try"
    ELSE "unknown"

BlockCondition(start_line) ==
    IF StartsWith(start_line, <<"i","f"," ">>)
    THEN RStripChars(From(start_line, 3), {":"})
    ELSE IF StartsWith(start_line, <<"r","e","p","e","a","t"," ">>)
    THEN RStripChars(From(start_line, 7), {":"})
    ELSE IF StartsWith(start_line, <<"t","r","y",":">>) THEN None
    ELSE RStripChars(start_line, {":"})

ParsedBlock(start_line, start_index, indent_level, body) ==
    [block |-> AtlasBlock(BlockType(start_line), BlockCondition(start_line),
                          body.commands, start_index + 1, indent_level),
     consumed_lines |-> body.i - start_index + 1]

BlockAt(ls, start_index, indent_level) ==
    ParsedBlock(Strip(ls[start_index + 1]), start_index, indent_level,
        ParseBlockBody(ls, start_index + 1, indent_level, <<>>))

\* [block, consumed_lines]
_parse_block(ls, start_index) ==
    BlockAt(ls, start_index, Indent(ls[start_index + 1]))

RECURSIVE ParseCommandsFrom(_, _, _, _)

\* `variables[var_name] = var_value` for a set_variable command
WithVariable(vs, command) ==
    IF command.command_type = "set_variable"
    THEN [n \in DOMAIN vs \cup {command.target} |->
            IF n = command.target THEN command.value ELSE vs[n]]
    ELSE vs

AfterCommand(ls, i, commands, vs, command) ==
    IF command = NoCommand
    THEN ParseCommandsFrom(ls, i + 1, commands, vs)
    ELSE ParseCommandsFrom(ls, i + 1, Append(commands, command),
                           WithVariable(vs, command))

AfterBlock(ls, i, commands, vs, parsed) ==
    ParseCommandsFrom(ls, i + parsed.consumed_lines,
                      Append(commands, parsed.block), vs)

\* one pass of the while loop of _parse_commands
CommandsAt(ls, i, commands, vs, line, clean_line) ==
    IF clean_line = <<>> \/ StartsWith(clean_line, <<"#">>)
    THEN ParseCommandsFrom(ls, i + 1, commands, vs)
    ELSE IF StartsWithAny(clean_line, TopBlockPrefixes)
    THEN AfterBlock(ls, i, commands, vs, _parse_block(ls, i))
    ELSE AfterCommand(ls, i, commands, vs,
             _parse_single_command(clean_line, i + 1, line))

\* the while loop of _parse_commands from index i: [commands, variables]
ParseCommandsFrom(ls, i, commands, vs) ==
    IF i >= Len(ls) THEN [commands |-> commands, variables |-> vs]
    ELSE CommandsAt(ls, i, commands, vs, RStrip(ls[i + 1]), Strip(ls[i + 1]))

_parse_commands(ls) == ParseCommandsFrom(ls, 0, <<>>, <<>>)

(***************************************************************************)
(* AtlasParser._extract_metadata and parse_content                         *)
(***************************************************************************)
MetadataKeys ==
    <<[key |-> "title", label |-> <<"T","i","t","l","e",":">>],
      [key |-> "description", label |-> <<"D","e","s","c","r","i","p","t","i","o","n",":">>],
      [key |-> "date", label |-> <<"D","a","t","e",":">>],
      [key |-> "platform", label |-> <<"P","l","a","t","f","o","r","m",":">>]>>

\* the if/elif chain on one comment line: the first label it contains
RECURSIVE MetadataOfLine(_, _, _)
MetadataOfLine(metadata, line, k) ==
    IF k > Len(MetadataKeys) THEN metadata
    ELSE IF Contains(line, MetadataKeys[k].label)
    THEN [metadata EXCEPT ![MetadataKeys[k].key] =
              Strip(AfterFirst(line, MetadataKeys[k].label))]
    ELSE MetadataOfLine(metadata, line, k + 1)

MetadataWithLine(metadata, line) ==
    IF StartsWith(line, <<"#">>) THEN MetadataOfLine(metadata, line, 1)
    ELSE metadata

RECURSIVE ExtractMetadataFrom(_, _, _)
ExtractMetadataFrom(ls, i, metadata) ==
    IF i > Len(ls) THEN metadata
    ELSE ExtractMetadataFrom(ls, i + 1,
             MetadataWithLine(metadata, Strip(ls[i])))

\* a key the dict does not hold maps to None
_extract_metadata(ls, now) ==
    ExtractMetadataFrom(ls, 1,
        [generated |-> now, platform |-> <<"m","a","c","O","S">>, version |-> <<"1",".","0">>,
         title |-> None, description |-> None, date |-> None])

AtlasMacro(metadata, parsed) ==
    [title |-> IF metadata.title = None
               THEN <<"U","n","t","i","t","l","e","d"," ","M","a","c","r","o">> ELSE metadata.title,
     description |-> IF metadata.description = None
                     THEN <<>> ELSE metadata.description,
     commands |-> parsed.commands,
     variables |-> parsed.variables,
     metadata |-> metadata]

parse_content(ls, now) ==
    AtlasMacro(_extract_metadata(ls, now), _parse_commands(ls))

(***************************************************************************)
(* AtlasExecutor._substitute_variables                                     *)
(*   re.sub(r'\$\{(\w+)\}', replace_var, text): the matches are found      *)
(* left to right in text, never in a replacement.                          *)
(***************************************************************************)
\* the position after a match of \$\{(\w+)\} that starts at i, 0 if none;
\* e is the position after the longest run of \w from i + 2
VarRefClose(s, i, e) ==
    IF e > i + 2 /\ e <= Len(s) /\ s[e] = "}" THEN e + 1 ELSE 0

VarRefEnd(s, i) ==
    IF i + 3 > Len(s) \/ s[i] # "$" \/ s[i + 1] # "{" THEN 0
    ELSE VarRefClose(s, i, RunEnd(s, i + 2, WordChars))

\* replace_var: the stored value, or the match itself
replace_var(store, var_name, whole) ==
    IF var_name \in DOMAIN store THEN store[var_name] ELSE whole

RECURSIVE SubFrom(_, _, _)
\* e: the position after the match at i, 0 if \$\{(\w+)\} does not match there
SubAt(s, i, e, store) ==
    IF e = 0 THEN <<s[i]>> \o SubFrom(s, i + 1, store)
    ELSE replace_var(store, SubSeq(s, i + 2, e - 2), SubSeq(s, i, e - 1))
         \o SubFrom(s, e, store)

SubFrom(s, i, store) ==
    IF i > Len(s) THEN <<>> ELSE SubAt(s, i, VarRefEnd(s, i), store)

\* variant: the result of the pass is scanned again
SubstituteAgain(s, store) ==
    IF s = None \/ s = <<>> THEN s
    ELSE SubFrom(SubFrom(s, 1, store), 1, store)

_substitute_variables(s, store) ==
    IF s = None \/ s = <<>> THEN s ELSE SubFrom(s, 1, store)

(***************************************************************************)
(* float() and int() of the strings the executor converts                  *)
(***************************************************************************)
RECURSIVE Pow10(_)
Pow10(n) == IF n = 0 THEN 1 ELSE 10 * Pow10(n - 1)

\* durations are counted in millionths of a second
Micro == Pow10(6)

\* float(s) in millionths: [ok, value]; ok is FALSE where float() raises.
\* Covers [sign] digits [. digits] and [sign] . digits; the exponent, inf, nan
\* and underscore forms do not occur in the scripts checked.
NotANumber == [ok |-> FALSE, value |-> 0]

FractionVal(frac) ==
    IF Len(frac) > 6 THEN DigitsVal(SubSeq(frac, 1, 6))
    ELSE DigitsVal(frac) * Pow10(6 - Len(frac))

FloatOfParts(whole, frac) ==
    IF /\ \A i \in 1..Len(frac) : frac[i] \in Digits
       /\ whole # <<>> \/ frac # <<>>
    THEN [ok |-> TRUE, value |-> DigitsVal(whole) * Micro + FractionVal(frac)]
    ELSE NotANumber

\* d: the position after the leading digits of u
FloatAt(u, d) ==
    IF d <= Len(u) /\ u[d] = "." THEN FloatOfParts(SubSeq(u, 1, d - 1), From(u, d))
    ELSE IF d = Len(u) + 1 THEN FloatOfParts(u, <<>>)
    ELSE NotANumber

Unsigned(t) == IF t # <<>> /\ t[1] \in {"-", "+"} THEN Tail(t) ELSE t

Signed(t, n) ==
    IF n.ok /\ t[1] = "-" THEN [ok |-> TRUE, value |-> 0 - n.value] ELSE n

FloatOfUnsigned(u) == FloatAt(u, RunEnd(u, 1, Digits))

FloatOfStripped(t) == Signed(t, FloatOfUnsigned(Unsigned(t)))

ParseFloat(s) == FloatOfStripped(Strip(s))

\* int(s): [ok, value]; ok is FALSE where int() raises
IntOfUnsigned(u) ==
    IF IsDigits(u) THEN [ok |-> TRUE, value |-> DigitsVal(u)] ELSE NotANumber

IntOfStripped(t) == Signed(t, IntOfUnsigned(Unsigned(t)))

ParseInt(s) == IF s = None THEN NotANumber ELSE IntOfStripped(Strip(s))

\* s.split(c); k is the position of the first c in s, 0 if none
RECURSIVE Split(_, _)
SplitAt(s, c, k) ==
    IF k = 0 THEN <<s>> ELSE <<SubSeq(s, 1, k - 1)>> \o Split(From(s, k), c)

Split(s, c) == SplitAt(s, c, FindFrom(s, <<c>>, 1))

(***************************************************************************)
(* The command handlers.  Each returns what it did:                        *)
(*   success, message   the ExecutionResult                                *)
(*   calls              the actuator calls it issued, in order             *)
(*   variables          self.variables afterwards                          *)
(*   slept              what it passed to time.sleep, in millionths of a s *)
(* outcome is the environment's answer to the actuator call the handler    *)
(* makes: "ok", or "error" (the call raises, or the process exits with a   *)
(* status other than 0).                                                   *)
(***************************************************************************)
Exc == <<"<exception>">>

Call(op, args) == [op |-> op, args |-> args]

Handled(success, message, calls, store, slept) ==
    [success |-> success, message |-> message, calls |-> calls,
     variables |-> store, slept |-> slept]

ActuatorCall(call, outcome, store, done, failed) ==
    IF outcome = "ok"
    THEN Handled(TRUE, done, <<call>>, store, 0)
    ELSE Handled(FALSE, failed, <<call>>, store, 0)

\* app_name = command.target
_execute_open(command, store, outcome) ==
    ActuatorCall(Call("subprocess.run", <<<<"o","p","e","n">>, <<"-","a">>, command.target>>),
        outcome, store,
        <<"Application ">> \o command.target \o <<" opened">>,
        <<"Could not open ">> \o command.target \o <<": ">> \o Exc)

_click_coordinates(x, y, store, outcome) ==
    ActuatorCall(Call("pyautogui.click", <<NatStr(x), NatStr(y)>>),
        outcome, store,
        <<"Click at coordinates (">> \o NatStr(x) \o <<", ">> \o NatStr(y)
            \o <<")">>,
        <<"Coordinate click error: ">> \o Exc)

\* the stub: no Vision Engine, no pointer click
_click_template(template_name, store) ==
    Handled(TRUE, <<"Click on template ">> \o template_name \o <<" (stub)">>,
            <<>>, store, 0)

_execute_click(command, store, outcome) ==
    IF "type" \in DOMAIN command.parameters
       /\ command.parameters.type = "coordinates"
    THEN _click_coordinates(command.parameters.x, command.parameters.y,
                            store, outcome)
    ELSE _click_template(command.target, store)

TypeText(txt, store, outcome) ==
    ActuatorCall(Call("pyautogui.typewrite", <<txt>>), outcome, store,
        <<"Typed text: ">> \o txt, <<"Typing error: ">> \o Exc)

_execute_type(command, store, outcome) ==
    TypeText(_substitute_variables(command.value, store), store, outcome)

Thousandth(f) == [ok |-> f.ok, value |-> f.value \div 1000]

\* the if/elif chain on the suffix: [ok, value], value in millionths of a s
WaitDuration(duration_str) ==
    IF EndsWith(duration_str, <<"s">>)
    THEN ParseFloat(SubSeq(duration_str, 1, Len(duration_str) - 1))
    ELSE IF EndsWith(duration_str, <<"m","s">>)
    THEN Thousandth(ParseFloat(SubSeq(duration_str, 1, Len(duration_str) - 2)))
    ELSE ParseFloat(duration_str)

\* time.sleep(duration), which raises on a negative duration
Sleep(duration, store) ==
    IF duration.ok /\ duration.value >= 0
    THEN Handled(TRUE, <<"Waited ", "micros:">> \o NatStr(duration.value),
                 <<>>, store, duration.value)
    ELSE Handled(FALSE, <<"Wait error: ">> \o Exc, <<>>, store, 0)

_execute_wait(command, store) == Sleep(WaitDuration(command.value), store)

\* key = command.target
_execute_press(command, store, outcome) ==
    ActuatorCall(Call("pyautogui.press", <<command.target>>), outcome, store,
        <<"Pressed key: ">> \o command.target, <<"Key press error: ">> \o Exc)

\* keys = command.target.split('+')
_execute_hotkey(command, store, outcome) ==
    ActuatorCall(Call("pyautogui.hotkey", Split(command.target, "+")),
        outcome, store,
        <<"Hotkey: ">> \o command.target, <<"Hotkey error: ">> \o Exc)

_execute_selenium_init(command, store) ==
    Handled(TRUE, <<"Selenium initialised for ">> \o command.target
                  \o <<" (stub)">>, <<>>, store, 0)

_execute_selenium_click(command, store) ==
    Handled(TRUE, <<"Selenium click on ">> \o command.target \o <<" (stub)">>,
            <<>>, store, 0)

SeleniumType(selector, txt, store) ==
    Handled(TRUE, <<"Selenium input into ">> \o selector \o <<": ">> \o txt
                  \o <<" (stub)">>, <<>>, store, 0)

_execute_selenium_type(command, store) ==
    SeleniumType(command.target,
                 _substitute_variables(command.value, store), store)

_execute_selenium_close(command, store) ==
    Handled(TRUE, <<"Selenium closed (stub)">>, <<>>, store, 0)

SetVariable(name, value, store) ==
    Handled(TRUE, <<"Variable ">> \o name \o <<" = ">> \o value, <<>>,
            [n \in DOMAIN store \cup {name} |->
                IF n = name THEN value ELSE store[n]],
            0)

_execute_set_variable(command, store) ==
    SetVariable(command.target,
                _substitute_variables(command.value, store), store)

RunShell(cmd, store, outcome) ==
    ActuatorCall(Call("subprocess.run", <<cmd>>), outcome, store,
        <<"Command done: ">> \o cmd, <<"Command error: ", "<stderr>">>)

_execute_system_command(command, store, outcome) ==
    RunShell(_substitute_variables(command.value, store), store, outcome)

LogMessage(message, store) ==
    Handled(TRUE, <<"Log: ">> \o message,
            <<Call("logger.info", <<message>>)>>, store, 0)

_execute_log(command, store) ==
    LogMessage(_substitute_variables(command.value, store), store)

\* the routing of _execute_command for an AtlasCommand
Route(t, command, store, outcome) ==
    CASE t = "open" -> _execute_open(command, store, outcome)
      [] t = "click" -> _execute_click(command, store, outcome)
      [] t = "type" -> _execute_type(command, store, outcome)
      [] t = "wait" -> _execute_wait(command, store)
      [] t = "press" -> _execute_press(command, store, outcome)
      [] t = "hotkey" -> _execute_hotkey(command, store, outcome)
      [] t = "selenium_init" -> _execute_selenium_init(command, store)
      [] t = "selenium_click" -> _execute_selenium_click(command, store)
      [] t = "selenium_type" -> _execute_selenium_type(command, store)
      [] t = "selenium_close" -> _execute_selenium_close(command, store)
      [] t = "set_variable" -> _execute_set_variable(command, store)
      [] t = "system_command" ->
             _execute_system_command(command, store, outcome)
      [] t = "log" -> _execute_log(command, store)
      [] t = "abort" ->
             Handled(FALSE, <<"Execution interrupted by the abort command">>,
                     <<>>, store, 0)
      [] OTHER ->
             Handled(TRUE, <<"Command ", t, " skipped">>, <<>>, store, 0)

_execute_command(command, store, outcome) ==
    Route(command.command_type, command, store, outcome)

\* the answers the environment can give to the command's actuator call; for a
\* template click "error" is a screen on which the reference image is never
\* found (the stub _click_template does not look)
Outcomes(command) ==
    IF command.command_type \in
           {"open", "click", "type", "press", "hotkey", "system_command"}
    THEN {"ok", "error"}
    ELSE {"ok"}

(***************************************************************************)
(* The walk of the command tree.  A node is named by its path: the child   *)
(* indexes from macro.commands down to it.  A frame of the stack is one    *)
(* active for-loop: execute_macro's over macro.commands (kind "macro"), a  *)
(* repeat block's or a try block's over block.commands.                    *)
(***************************************************************************)
RECURSIVE NodeAt(_, _)
NodeAt(commands, path) ==
    IF Len(path) = 1 THEN commands[path[1]]
    ELSE NodeAt(commands[path[1]].commands, Tail(path))

ChildrenAt(m, path) ==
    IF path = <<>> THEN m.commands ELSE NodeAt(m.commands, path).commands

\* idx: the child the loop runs next; iteration, count: the repeat's i and
\* range(count); start_time: execute_macro's local
Frame(kind, path, count, start_time) ==
    [kind |-> kind, path |-> path, count |-> count, iteration |-> 0,
     idx |-> 1, start_time |-> start_time]

ExecutionResult(success, message) == [success |-> success, message |-> message]

NoResult == [success |-> FALSE, message |-> None, execution_time |-> -1]

Top == stack[Len(stack)]

Pop(stk) == SubSeq(stk, 1, Len(stk) - 1)

\* variant: a repeat block that tests its count after the first iteration
HasNextBeforeCount(m, f) == f.idx <= Len(ChildrenAt(m, f.path))

\* the frame's loop has a next child to run
HasNext(m, f) ==
    /\ f.idx <= Len(ChildrenAt(m, f.path))
    /\ f.kind = "repeat" => f.iteration < f.count

NextPath(f) == Append(f.path, f.idx)

Advance(stk) ==
    [stk EXCEPT ![Len(stk)].idx = stk[Len(stk)].idx + 1]

EnterEvent(path) == [ev |-> "enter", path |-> path]

LeaveEvent(path, r) ==
    [ev |-> "leave", path |-> path, success |-> r.success,
     message |-> r.message]

ExecEvent(path, h, outcome, store) ==
    [ev |-> "exec", path |-> path, success |-> h.success,
     message |-> h.message, calls |-> h.calls, slept |-> h.slept,
     outcome |-> outcome, store |-> store]

\* variant: execute_macro reporting a failed command as a success
MacroFailureAsSuccess(i, r) ==
    ExecutionResult(TRUE,
        <<"Error at command ">> \o NatStr(i) \o <<": ">> \o r.message)

\* execute_macro's `if not result.success: return ExecutionResult(False, ...)`
MacroFailure(i, r) ==
    ExecutionResult(FALSE,
        <<"Error at command ">> \o NatStr(i) \o <<": ">> \o r.message)

\* variants of the loops' reaction to a failed result, which the properties of
\* the executor must tell apart from the source's: execute_macro going on,
\* a try block returning the failure
FrameContinuesInMacro(f, r) == r.success \/ f.kind \in {"try", "macro"}

FrameContinuesOnSuccess(f, r) == r.success

\* what the loop that called _execute_command does with the result
FrameContinues(f, r) == r.success \/ f.kind = "try"

(***************************************************************************)
(* Return of result r from _execute_command to the loops on the stack:     *)
(* execute_macro returns at the first failure, a repeat block returns the  *)
(* failure to its own caller, a try block goes on.                         *)
(* Gives [stack, trace, result]; result is NoResult while the macro runs.  *)
(***************************************************************************)
RECURSIVE Deliver(_, _, _)
\* variant: a failure that leaves a repeat block ends the macro at once
DeliverToMacro(f, r, stk, tr) ==
    IF FrameContinues(f, r)
    THEN [stack |-> Advance(stk), trace |-> tr, result |-> NoResult]
    ELSE [stack |-> <<>>, trace |-> Append(tr, LeaveEvent(f.path, r)),
          result |-> MacroFailure(stk[1].idx, r)]

DeliverTo(f, r, stk, tr) ==
    IF FrameContinues(f, r)
    THEN [stack |-> Advance(stk), trace |-> tr, result |-> NoResult]
    ELSE IF f.kind = "macro"
    THEN [stack |-> <<>>, trace |-> tr, result |-> MacroFailure(f.idx, r)]
    ELSE Deliver(r, Pop(stk), Append(tr, LeaveEvent(f.path, r)))

Deliver(r, stk, tr) == DeliverTo(stk[Len(stk)], r, stk, tr)

Finished(r, start_time, now) ==
    [success |-> r.success, message |-> r.message,
     execution_time |-> now - start_time]

Delivered(d, now) ==
    /\ stack' = d.stack
    /\ trace' = d.trace
    /\ clock' = now
    /\ IF d.stack = <<>>
       THEN /\ pc' = "done"
            /\ result' = Finished(d.result, stack[1].start_time, now)
       ELSE /\ pc' = pc
            /\ result' = result

(***************************************************************************)
(* Actions                                                                 *)
(***************************************************************************)
SubstUnchanged == UNCHANGED <<text, parts, substituted>>

LocateUnchanged == UNCHANGED <<finder, template_cache, loads, batch, second>>

\* variant: the store is the macro's own dict (self.variables =
\* macro.variables), so what the handlers write is written to the macro
MacroAfterShared(m, store) == [m EXCEPT !.variables = store]

\* the macro object after a step of execute_macro.  The store is the dict
\* made in __init__; update() copies macro.variables into it and the
\* handlers assign to the store alone; no handler assigns to a command.
MacroAfter(m, store) == m

\* AtlasParser.parse_content
ParseContent ==
    /\ pc = "start"
    /\ macro' = parse_content(lines, clock)
    /\ pc' = "parsed"
    /\ UNCHANGED <<lines, outline, executions, clock, variables, stack, trace, result>>
    /\ SubstUnchanged
    /\ LocateUnchanged

\* variant: execute_macro that does not fill the store from the macro
UpdateNothing(store, other) == store

\* dict.update
Update(store, other) ==
    [n \in DOMAIN store \cup DOMAIN other |->
        IF n \in DOMAIN other THEN other[n] ELSE store[n]]

\* AtlasExecutor.execute_macro, up to its loop over macro.commands
ExecuteMacro ==
    /\ pc = "parsed"
    /\ variables' = Update(variables, macro.variables)
    /\ macro' = MacroAfter(macro, Update(variables, macro.variables))
    /\ stack' = <<Frame("macro", <<>>, 1, clock)>>
    /\ pc' = "running"
    /\ executions' = executions + 1
    /\ UNCHANGED <<lines, outline, clock, trace, result>>
    /\ SubstUnchanged
    /\ LocateUnchanged

\* the return of the result h of a command handler
Executed(path, h, outcome) ==
    /\ variables' = h.variables
    /\ macro' = MacroAfter(macro, h.variables)
    /\ \E d \in {Deliver(ExecutionResult(h.success, h.message), stack,
                         Append(trace, ExecEvent(path, h, outcome, variables)))} :
          Delivered(d, clock + h.slept)

ExecuteAt(path, command) ==
    /\ command.node = "command"
    /\ \E outcome \in Outcomes(command) :
          \E h \in {_execute_command(command, variables, outcome)} :
              Executed(path, h, outcome)

\* _execute_command on an AtlasCommand, and the return of its result
ExecuteCommand ==
    /\ pc = "running"
    /\ HasNext(macro, Top)
    /\ ExecuteAt(NextPath(Top), NodeAt(macro.commands, NextPath(Top)))
    /\ UNCHANGED <<lines, outline, executions>>
    /\ SubstUnchanged
    /\ LocateUnchanged

\* _execute_block: the block's own result when it runs no loop, else NoResult
\* variant: an if block that runs its body
BlockResultIfTaken(block) ==
    CASE block.block_type = "repeat" ->
            IF ParseInt(block.condition).ok THEN NoResult
            ELSE ExecutionResult(FALSE, <<"Repeat block error: ">> \o Exc)
      [] block.block_type \in {"try", "if"} -> NoResult
      [] OTHER ->
            ExecutionResult(FALSE, <<"Unknown block type: ", block.block_type>>)

BlockResult(block) ==
    CASE block.block_type = "repeat" ->
            IF ParseInt(block.condition).ok THEN NoResult
            ELSE ExecutionResult(FALSE, <<"Repeat block error: ">> \o Exc)
      [] block.block_type = "try" -> NoResult
      [] block.block_type = "if" ->
            ExecutionResult(TRUE, <<"If block skipped (not implemented)">>)
      [] OTHER ->
            ExecutionResult(FALSE, <<"Unknown block type: ", block.block_type>>)

\* variant: a loop that runs its body before it tests its count
BlockCountAtLeastOnce(block) ==
    IF block.block_type = "repeat" /\ ParseInt(block.condition).value > 0
    THEN ParseInt(block.condition).value
    ELSE 1

BlockCount(block) ==
    IF block.block_type = "repeat" THEN ParseInt(block.condition).value ELSE 1

EnterAt(path, block, r) ==
    /\ block.node = "block"
    /\ IF r = NoResult
       THEN /\ stack' = Append(stack,
                  Frame(block.block_type, path, BlockCount(block), 0))
            /\ trace' = Append(trace, EnterEvent(path))
            /\ UNCHANGED <<pc, result, clock>>
       ELSE \E d \in {Deliver(r, stack, Append(trace, LeaveEvent(path, r)))} :
               Delivered(d, clock)

EnterNode(path, block) ==
    /\ block.node = "block"
    /\ EnterAt(path, block, BlockResult(block))

\* _execute_command on an AtlasBlock: _execute_block up to the block's loop
EnterBlock ==
    /\ pc = "running"
    /\ HasNext(macro, Top)
    /\ EnterNode(NextPath(Top), NodeAt(macro.commands, NextPath(Top)))
    /\ UNCHANGED <<lines, outline, executions, macro, variables>>
    /\ SubstUnchanged
    /\ LocateUnchanged

\* `for i in range(count)`: the next iteration of a repeat block
NextIteration ==
    /\ pc = "running"
    /\ Top.kind = "repeat"
    /\ Top.idx > Len(ChildrenAt(macro, Top.path))
    /\ Top.iteration + 1 < Top.count
    /\ stack' = [stack EXCEPT ![Len(stack)].iteration = Top.iteration + 1,
                              ![Len(stack)].idx = 1]
    /\ UNCHANGED <<lines, outline, executions, clock, macro, pc, variables, trace, result>>
    /\ SubstUnchanged
    /\ LocateUnchanged

IntStr(n) == IF n < 0 THEN <<"-">> \o NatStr(0 - n) ELSE NatStr(n)

\* the result of a block whose loop ran to its end
LoopResult(f) ==
    IF f.kind = "repeat"
    THEN ExecutionResult(TRUE, <<"Repeat block done, times: ">> \o IntStr(f.count))
    ELSE ExecutionResult(TRUE, <<"Try block done">>)

Left(f, r) ==
    \E d \in {Deliver(r, Pop(stack), Append(trace, LeaveEvent(f.path, r)))} :
        Delivered(d, clock)

\* the loop of a repeat or try block is over: the block returns success
LeaveBlock ==
    /\ pc = "running"
    /\ Top.kind \in {"repeat", "try"}
    /\ ~HasNext(macro, Top)
    /\ Top.kind = "repeat" => Top.iteration + 1 >= Top.count
    /\ Left(Top, LoopResult(Top))
    /\ UNCHANGED <<lines, outline, executions, macro, variables>>
    /\ SubstUnchanged
    /\ LocateUnchanged

\* the loop of execute_macro is over: the macro returns success
Return ==
    /\ pc = "running"
    /\ Top.kind = "macro"
    /\ ~HasNext(macro, Top)
    /\ pc' = "done"
    /\ stack' = <<>>
    /\ result' = Finished(
                     ExecutionResult(TRUE, <<"Macro executed successfully">>),
                     Top.start_time, clock)
    /\ UNCHANGED <<lines, outline, executions, clock, macro, variables, trace>>
    /\ SubstUnchanged
    /\ LocateUnchanged

(***************************************************************************)
(* The scripts checked                                                     *)
(***************************************************************************)
Indented(n, line) == [i \in 1..(4 * n) |-> " "] \o line

RepeatHeader(n) == <<"r","e","p","e","a","t"," ">> \o NatStr(n) \o <<":">>

\* the commands of the control-flow scripts: one whose actuator may fail,
\* abort, and one that always succeeds
ControlLines == {<<"p","r","e","s","s"," ","a">>, <<"a","b","o","r","t">>, <<"l","o","g"," ","\"","m","\"">>}

\* one line of every command kind, well formed and not
CommandLines ==
    {<<"o","p","e","n"," ","C","a","l","c","u","l","a","t","o","r">>, <<"o","p","e","n"," ","$","{","x","}">>,
     <<"c","l","i","c","k"," ","(","1","0",","," ","2","0",")">>, <<"c","l","i","c","k"," ","B","u","t","t","o","n","A">>, <<"c","l","i","c","k"," ","(","a",",","b",")">>,
     <<"t","y","p","e"," ","\"","a","$","{","x","}","\"">>, <<"t","y","p","e"," ","h","e","l","l","o">>,
     <<"w","a","i","t"," ","3","s">>, <<"w","a","i","t"," ","3","0","0","0","m","s">>, <<"w","a","i","t"," ","3">>, <<"w","a","i","t"," ","1",".","5","s">>, <<"w","a","i","t"," ","s","o","o","n">>,
     <<"p","r","e","s","s"," ","e","n","t","e","r">>, <<"p","r","e","s","s"," ","$","{","x","}">>,
     <<"h","o","t","k","e","y"," ","c","m","d","+","c">>, <<"h","o","t","k","e","y"," ","$","{","x","}","+","c">>,
     <<"s","e","l","e","n","i","u","m","_","i","n","i","t"," ","u","r","l","=","\"","$","{","x","}","\"">>, <<"s","e","l","e","n","i","u","m","_","i","n","i","t"," ","$","{","x","}">>,
     <<"s","e","l","e","n","i","u","m","_","c","l","i","c","k"," ","s","e","l","e","c","t","o","r","=","\"","b","\"">>,
     <<"s","e","l","e","n","i","u","m","_","t","y","p","e"," ","s","e","l","e","c","t","o","r","=","\"","i","\""," ","t","e","x","t","=","\"","$","{","x","}","\"">>,
     <<"s","e","l","e","n","i","u","m","_","c","l","o","s","e">>,
     <<"s","e","t","_","v","a","r","i","a","b","l","e"," ","x","=","\"","v","\"">>, <<"s","e","t","_","v","a","r","i","a","b","l","e"," ","y","=","\"","$","{","x","}","\"">>, <<"s","e","t","_","v","a","r","i","a","b","l","e"," ","x","=","1">>,
     <<"s","y","s","t","e","m","_","c","o","m","m","a","n","d"," ","\"","l","s"," ","$","{","x","}","\"">>, <<"s","y","s","t","e","m","_","c","o","m","m","a","n","d"," ","l","s">>,
     <<"l","o","g"," ","\"","$","{","x","}","\"">>, <<"l","o","g"," ","$","{","y","}">>,
     <<"a","b","o","r","t">>, <<"s","c","r","o","l","l"," ","d","o","w","n">>}

PairScripts == {<<a, b>> : a \in CommandLines, b \in CommandLines}

SequenceScripts ==
    {<<a, b, c>> : a \in ControlLines, b \in ControlLines, c \in ControlLines}

BlockHeaders ==
    {<<"t","r","y",":">>, <<"i","f"," ","r","e","a","d","y",":">>, <<"i","f"," ","f","a","l","s","e",":">>, <<"w","h","i","l","e"," ","r","e","a","d","y",":">>, <<"r","e","p","e","a","t"," ","x",":">>,
     <<"f","o","r","_","e","a","c","h"," ","i","t","e","m"," ","i","n"," ","i","t","e","m","s",":">>}
    \cup {RepeatHeader(n) : n \in 0..MaxRepeat}

\* header / a / b / end / c
BlockScripts ==
    {<<h, Indented(1, a), Indented(1, b), <<"e","n","d">>, c>> :
        h \in BlockHeaders, a \in ControlLines,
        b \in ControlLines, c \in ControlLines}

\* try: / repeat n: / a / b / end / c / end / d, and with repeat outside
NestedScripts ==
    {<<h[1], Indented(1, h[2]), Indented(2, a), Indented(2, b),
       Indented(1, <<"e","n","d">>), Indented(1, c), <<"e","n","d">>, d>> :
        h \in {<<<<"t","r","y",":">>, RepeatHeader(n)>> : n \in 0..MaxRepeat}
              \cup {<<RepeatHeader(n), <<"t","r","y",":">>>> : n \in 0..MaxRepeat},
        a \in ControlLines, b \in ControlLines,
        c \in ControlLines, d \in ControlLines}

\* section 8 of the specification: scenarios A, B and C
ScenarioA ==
    <<<<"o","p","e","n"," ","C","a","l","c","u","l","a","t","o","r">>, <<"w","a","i","t"," ","2","s">>, <<"p","r","e","s","s"," ","5">>, <<"p","r","e","s","s"," ","+">>, <<"p","r","e","s","s"," ","3">>,
      <<"p","r","e","s","s"," ","e","n","t","e","r">>>>

ScenarioB ==
    <<<<"r","e","p","e","a","t"," ","3",":">>, Indented(1, <<"c","l","i","c","k"," ","B","u","t","t","o","n","A">>), Indented(1, <<"w","a","i","t"," ","1","s">>),
      <<"e","n","d">>>>

ScenarioC ==
    <<<<"t","r","y",":">>, Indented(1, <<"c","l","i","c","k"," ","M","i","s","s","i","n","g">>), Indented(1, <<"l","o","g"," ","\"","a","f","t","e","r","\"">>),
      <<"e","n","d">>>>

Scripts ==
    PairScripts \cup SequenceScripts \cup BlockScripts \cup NestedScripts
    \cup {ScenarioA, ScenarioB, ScenarioC}

(***************************************************************************)
(* Specification: one script is parsed and the macro executed once by a    *)
(* new AtlasExecutor.                                                      *)
(***************************************************************************)
NoSubst ==
    /\ text = <<>>
    /\ parts = <<>>
    /\ substituted = None

\* no find_template call is under way
NoCall == [pc |-> "idle"]

\* no execute_atlas_file call was made
NoBatch == [pc |-> "idle"]

\* there is no second executor
NoSecond == [pc |-> "idle"]

\* what an execute_atlas_file call leaves alone
BatchIdle ==
    /\ UNCHANGED <<lines, clock, macro, pc, variables, stack, trace, result,
                   outline, executions, finder, template_cache, loads,
                   second>>
    /\ SubstUnchanged

\* self.template_cache = {} of a new TemplateMatcher
NoLoads ==
    /\ template_cache = <<>>
    /\ loads = <<>>

Init ==
    /\ lines \in Scripts
    /\ clock = 0
    /\ macro = NoMacro
    /\ pc = "start"
    /\ variables = <<>>
    /\ stack = <<>>
    /\ trace = <<>>
    /\ result = NoResult
    /\ NoSubst
    /\ outline = <<>>
    /\ executions = 0
    /\ finder = NoCall
    /\ NoLoads
    /\ batch = NoBatch
    /\ second = NoSecond

Next ==
    \/ ParseContent
    \/ ExecuteMacro
    \/ ExecuteCommand
    \/ EnterBlock
    \/ NextIteration
    \/ LeaveBlock
    \/ Return

Spec == Init /\ [][Next]_vars

(***************************************************************************)
(* Specification of _substitute_variables alone: a text assembled from     *)
(* pieces, a Variable Store, one call.                                     *)
(***************************************************************************)
\* references to x, y and to z, which is never stored, and the characters
\* of a reference on their own
Pieces == {<<"$","{","x","}">>, <<"$","{","y","}">>, <<"$","{","z","}">>, <<"a">>, <<"$">>, <<"{">>, <<"}">>}

StoredNames == {<<"x">>, <<"y">>}

StoredValues == {<<"v">>, <<"$","{","y","}">>, <<"$","{","x","}">>, <<>>}

Stores == UNION {[D -> StoredValues] : D \in SUBSET StoredNames}

RECURSIVE Concat(_)
Concat(ss) == IF ss = <<>> THEN <<>> ELSE Head(ss) \o Concat(Tail(ss))

InitSubst ==
    /\ parts \in UNION {[1..n -> Pieces] : n \in 0..MaxParts}
    /\ text = Concat(parts)
    /\ variables \in Stores
    /\ substituted = None
    /\ pc = "call"
    /\ lines = <<>>
    /\ clock = 0
    /\ macro = NoMacro
    /\ stack = <<>>
    /\ trace = <<>>
    /\ result = NoResult
    /\ outline = <<>>
    /\ executions = 0
    /\ finder = NoCall
    /\ NoLoads
    /\ batch = NoBatch
    /\ second = NoSecond

Substitute ==
    /\ pc = "call"
    /\ substituted' = _substitute_variables(text, variables)
    /\ pc' = "returned"
    /\ UNCHANGED <<lines, clock, macro, variables, stack, trace, result,
                   text, parts, outline, executions>>
    /\ LocateUnchanged

NextSubst == Substitute

SpecSubst == InitSubst /\ [][NextSubst]_vars

(***************************************************************************)
(* Specification of parse_content alone, on scripts written from an        *)
(* outline: a sequence of nodes, each a command line or a block (a header  *)
(* line and a body of nodes).  A block is written as its header, its body  *)
(* one level deeper, and `end` at the header's indentation.                *)
(***************************************************************************)
MaxDepth == 2

Leaf(line) == [kind |-> "line", line |-> line]

Block(header, body) == [kind |-> "block", header |-> header, body |-> body]

RECURSIVE Render(_, _)
RenderNode(node, depth) ==
    IF node.kind = "line" THEN <<Indented(depth, node.line)>>
    ELSE <<Indented(depth, node.header)>> \o Render(node.body, depth + 1)
             \o <<Indented(depth, <<"e","n","d">>)>>

Render(nodes, depth) ==
    IF nodes = <<>> THEN <<>>
    ELSE RenderNode(Head(nodes), depth) \o Render(Tail(nodes), depth)

OutlineLeaves == {Leaf(<<"p","r","e","s","s"," ","a">>), Leaf(<<"s","e","t","_","v","a","r","i","a","b","l","e"," ","x","=","\"","v","\"">>)}

OutlineHeaders ==
    {<<"t","r","y",":">>, <<"r","e","p","e","a","t"," ","2",":">>, <<"i","f"," ","r","e","a","d","y",":">>, <<"w","h","i","l","e"," ","r","e","a","d","y",":">>,
     <<"f","o","r","_","e","a","c","h"," ","i","t","e","m"," ","i","n"," ","i","t","e","m","s",":">>}

\* the nodes nested exactly d deep: a block holds one node nested d - 1 deep,
\* with or without a command line before it and after it
RECURSIVE Nested(_)
Nested(d) ==
    IF d = 0 THEN OutlineLeaves
    ELSE {Block(h, before \o <<n>> \o after) :
             h \in OutlineHeaders, n \in Nested(d - 1),
             before \in {<<>>, <<Leaf(<<"p","r","e","s","s"," ","a">>)>>},
             after \in {<<>>, <<Leaf(<<"s","e","t","_","v","a","r","i","a","b","l","e"," ","x","=","\"","v","\"">>)>>}}

\* a block, and the line after its `end`
Outlines ==
    {<<n, after>> :
        n \in UNION {Nested(d) : d \in 1..MaxDepth}, after \in OutlineLeaves}

InitBlocks ==
    /\ outline \in Outlines
    /\ lines = Render(outline, 0)
    /\ clock = 0
    /\ macro = NoMacro
    /\ pc = "start"
    /\ variables = <<>>
    /\ stack = <<>>
    /\ trace = <<>>
    /\ result = NoResult
    /\ NoSubst
    /\ executions = 0
    /\ finder = NoCall
    /\ NoLoads
    /\ batch = NoBatch
    /\ second = NoSecond

NextBlocks == ParseContent

SpecBlocks == InitBlocks /\ [][NextBlocks]_vars

(***************************************************************************)
(* TemplateMatcher.find_template (src/engines/vision/template_matcher.py). *)
(* One call on a matcher whose template cache is empty.  Scores are        *)
(* percents (0.8 is 80), times are millionths of a second as for wait.     *)
(* The screen, the template file and the time a capture and a match take   *)
(* are the environment's choice.                                           *)
(***************************************************************************)
MaxAttempts == 4

\* self.default_confidence = 0.8
default_confidence == 80

\* time.sleep(0.1)
RetryInterval == Micro \div 10

MatchResult(found, confidence) == [found |-> found, confidence |-> confidence]

\* the confidence argument: None, or a number
NoConfidence == [given |-> FALSE, value |-> 0]

DefaultThreshold(confidence) == default_confidence

\* if confidence is None: confidence = self.default_confidence
ThresholdInForce(confidence) ==
    IF confidence.given THEN confidence.value ELSE default_confidence

LoadedUnlessMissing(image) == ~(image = "missing")

\* _get_template_path and _load_template both return something
Loaded(image) == image = "ok"

InTimeAtStart(now, start_time, timeout) == now = start_time

\* variant: a loop without a deadline
InTimeForever(now, start_time, timeout) == TRUE

\* while time.time() - start_time < timeout
InTime(now, start_time, timeout) == now - start_time < timeout

\* what happened in the call: "capture", "match" or "sleep"
LocateEvent(e, ok, max_val) == [e |-> e, ok |-> ok, max_val |-> max_val]

\* _match_template: max_val against the threshold; an exception of cv2 is a
\* result that is not found with confidence 0.0
_match_template(outcome, confidence) ==
    IF outcome.raised THEN MatchResult(FALSE, 0)
    ELSE MatchResult(outcome.max_val >= confidence, outcome.max_val)

Images == {"ok", "missing", "undecodable"}

ConfidenceArguments ==
    {NoConfidence}
        \cup {[given |-> TRUE, value |-> value] : value \in {0, 50, 90}}

Timeouts == {0 - RetryInterval, 0, 3 * RetryInterval}

\* the time one capture (and match) takes
WorkTimes == {0, RetryInterval}

MatchOutcomes ==
    {[raised |-> TRUE, max_val |-> 0]}
        \cup {[raised |-> FALSE, max_val |-> s] : s \in {0, 50, 80, 95}}

Attempts(log) == Cardinality({i \in 1..Len(log) : log[i].e = "capture"})

LocateIdle ==
    /\ UNCHANGED <<lines, macro, pc, variables, stack, trace, result,
                   outline, executions, template_cache, loads, batch,
                   second>>
    /\ SubstUnchanged

Returned(call, now, match) ==
    [call EXCEPT !.pc = "returned", !.result = match, !.returned_at = now]

\* find_template up to its loop: a template that cannot be loaded returns
\* at once
FindTemplate ==
    /\ finder = NoCall
    /\ NoLoads
    /\ batch = NoBatch
    /\ second = NoSecond
    /\ \E image \in Images, confidence \in ConfidenceArguments,
          timeout \in Timeouts :
          finder' =
              IF Loaded(image)
              THEN [pc |-> "loop", image |-> image, args |-> confidence,
                    confidence |-> ThresholdInForce(confidence),
                    timeout |-> timeout, start_time |-> clock, log |-> <<>>,
                    result |-> MatchResult(FALSE, 0), returned_at |-> clock]
              ELSE [pc |-> "returned", image |-> image, args |-> confidence,
                    confidence |-> ThresholdInForce(confidence),
                    timeout |-> timeout, start_time |-> clock, log |-> <<>>,
                    result |-> MatchResult(FALSE, 0), returned_at |-> clock]
    /\ UNCHANGED clock
    /\ LocateIdle

\* one pass of the loop in which _take_screenshot returns None: continue
CaptureFails ==
    /\ finder.pc = "loop"
    /\ InTime(clock, finder.start_time, finder.timeout)
    /\ Attempts(finder.log) < MaxAttempts
    /\ \E work \in WorkTimes : clock' = clock + work
    /\ finder' = [finder EXCEPT
                     !.log = Append(@, LocateEvent("capture", FALSE, 0))]
    /\ LocateIdle

Probed(call, now, outcome, match) ==
    IF match.found
    THEN Returned([call EXCEPT
                      !.log = @ \o <<LocateEvent("capture", TRUE, 0),
                                     LocateEvent("match", ~outcome.raised,
                                                 outcome.max_val)>>],
                  now, match)
    ELSE [call EXCEPT
             !.log = @ \o <<LocateEvent("capture", TRUE, 0),
                            LocateEvent("match", ~outcome.raised,
                                        outcome.max_val),
                            LocateEvent("sleep", TRUE, 0)>>]

\* one pass of the loop with a screenshot: return the match when found,
\* sleep otherwise
Probe ==
    /\ finder.pc = "loop"
    /\ InTime(clock, finder.start_time, finder.timeout)
    /\ Attempts(finder.log) < MaxAttempts
    /\ \E work \in WorkTimes, outcome \in MatchOutcomes :
          /\ finder' = Probed(finder, clock + work, outcome,
                              _match_template(outcome, finder.confidence))
          /\ clock' = IF _match_template(outcome, finder.confidence).found
                      THEN clock + work
                      ELSE clock + work + RetryInterval
    /\ LocateIdle

\* the loop condition fails: MatchResult(found=False, confidence=0.0, ...)
TimeOut ==
    /\ finder.pc = "loop"
    /\ ~InTime(clock, finder.start_time, finder.timeout)
    /\ finder' = Returned(finder, clock, MatchResult(FALSE, 0))
    /\ UNCHANGED clock
    /\ LocateIdle

InitLocate ==
    /\ lines = <<>>
    /\ clock = 0
    /\ macro = NoMacro
    /\ pc = "start"
    /\ variables = <<>>
    /\ stack = <<>>
    /\ trace = <<>>
    /\ result = NoResult
    /\ NoSubst
    /\ outline = <<>>
    /\ executions = 0
    /\ finder = NoCall
    /\ NoLoads
    /\ batch = NoBatch
    /\ second = NoSecond

NextLocate ==
    \/ FindTemplate
    \/ CaptureFails
    \/ Probe
    \/ TimeOut

SpecLocate == InitLocate /\ [][NextLocate]_vars

(***************************************************************************)
(* Specification: one AtlasExecutor executes several macros, one after the *)
(* other; self.variables is created by __init__ only.                      *)
(***************************************************************************)
MaxRuns == 2

RunLines ==
    {<<"s","e","t","_","v","a","r","i","a","b","l","e"," ","x","=","\"","v","\"">>, <<"s","e","t","_","v","a","r","i","a","b","l","e"," ","y","=","\"","w","\"">>, <<"t","y","p","e"," ","\"","$","{","x","}","\"">>,
     <<"l","o","g"," ","\"","$","{","y","}","\"">>}

\* a / b, and repeat 2: / a / end / b
RunScripts ==
    {<<a, b>> : a \in RunLines, b \in RunLines}
        \cup {<<RepeatHeader(2), Indented(1, a), <<"e","n","d">>, b>> :
                 a \in RunLines, b \in RunLines}

\* after execute_macro has returned: the next script is parsed and its macro
\* handed to the same executor
ParseAgain ==
    /\ pc = "done"
    /\ executions < MaxRuns
    /\ \E content \in RunScripts :
          /\ lines' = content
          /\ macro' = parse_content(content, clock)
    /\ pc' = "parsed"
    /\ trace' = <<>>
    /\ result' = NoResult
    /\ UNCHANGED <<outline, executions, clock, variables, stack>>
    /\ SubstUnchanged
    /\ LocateUnchanged

InitRuns ==
    /\ lines \in RunScripts
    /\ clock = 0
    /\ macro = NoMacro
    /\ pc = "start"
    /\ variables = <<>>
    /\ stack = <<>>
    /\ trace = <<>>
    /\ result = NoResult
    /\ NoSubst
    /\ outline = <<>>
    /\ executions = 0
    /\ finder = NoCall
    /\ NoLoads
    /\ batch = NoBatch
    /\ second = NoSecond

NextRuns ==
    \/ Next
    \/ ParseAgain

SpecRuns == InitRuns /\ [][NextRuns]_vars

(***************************************************************************)
(* Specification of parse_content on scripts with blank lines and          *)
(* comments: a script and the same script with one more line (blank,       *)
(* comment, comment with a metadata label) at any place; the text may be   *)
(* parsed again later.                                                     *)
(***************************************************************************)
MaxParses == 2

TextBases ==
    {<<<<"#"," ","T","i","t","l","e",":"," ","t">>, <<"p","r","e","s","s"," ","a">>, <<"p","r","e","s","s"," ","b">>>>,
     <<<<"t","r","y",":">>, Indented(1, <<"p","r","e","s","s"," ","a">>), Indented(1, <<"p","r","e","s","s"," ","b">>), <<"e","n","d">>,
       <<"p","r","e","s","s"," ","c">>>>,
     <<<<"r","e","p","e","a","t"," ","2",":">>, Indented(1, <<"t","r","y",":">>), Indented(2, <<"p","r","e","s","s"," ","a">>),
       Indented(1, <<"e","n","d">>), <<"e","n","d">>, <<"p","r","e","s","s"," ","c">>>>,
     <<<<"t","r","y",":">>, Indented(1, <<"p","r","e","s","s"," ","a">>), <<"p","r","e","s","s"," ","b">>, <<"p","r","e","s","s"," ","c">>>>}

TextInserts ==
    {<<>>, <<" "," "," ">>, <<"#"," ","n","o","t","e">>, Indented(1, <<"#"," ","n","o","t","e">>), Indented(2, <<"#"," ","n","o","t","e">>),
     <<"#"," ","T","i","t","l","e",":"," ","l","a","t","e">>, Indented(1, <<"#"," ","D","a","t","e",":"," ","d">>), <<"p","r","e","s","s"," ","z">>}

InsertAt(ls, i, line) ==
    SubSeq(ls, 1, i) \o <<line>> \o SubSeq(ls, i + 1, Len(ls))

TextScripts ==
    TextBases
        \cup UNION {{InsertAt(b, i, line) :
                        i \in 0..Len(b), line \in TextInserts} :
                    b \in TextBases}

\* a further parse_content call on the same text, at once or a second later
Reparse ==
    /\ pc = "parsed"
    /\ clock < MaxParses * Micro
    /\ \E elapsed \in {0, Micro} :
          /\ clock' = clock + elapsed
          /\ macro' = parse_content(lines, clock + elapsed)
    /\ UNCHANGED <<lines, outline, executions, pc, variables, stack, trace,
                   result>>
    /\ SubstUnchanged
    /\ LocateUnchanged

InitText ==
    /\ lines \in TextScripts
    /\ clock = 0
    /\ macro = NoMacro
    /\ pc = "start"
    /\ variables = <<>>
    /\ stack = <<>>
    /\ trace = <<>>
    /\ result = NoResult
    /\ NoSubst
    /\ outline = <<>>
    /\ executions = 0
    /\ finder = NoCall
    /\ NoLoads
    /\ batch = NoBatch
    /\ second = NoSecond

NextText ==
    \/ ParseContent
    \/ Reparse

SpecText == InitText /\ [][NextText]_vars

(***************************************************************************)
(* Specification with fairness: an execute_macro call on a script, and (on  *)
(* the empty script) a find_template call beside it.  The thread inside    *)
(* execute_macro goes on as long as a step of the call is possible and     *)
(* every actuator call returns; the thread inside find_template goes on    *)
(* and time passes in every pass of its loop.  Nothing obliges the caller  *)
(* to parse a script or to start either call.                              *)
(***************************************************************************)
ClockAdvances == finder.pc = "loop" => (clock' > clock \/ finder'.pc = "returned")

Locate ==
    /\ lines = <<>>
    /\ NextLocate
    /\ ClockAdvances

\* every block kind around a command that succeeds, fails or aborts; a
\* repeat inside a repeat; the three scenarios; the empty script, beside
\* which the Locator is called
LiveScripts ==
    {<<h, Indented(1, a), Indented(1, <<"p","r","e","s","s"," ","b">>), <<"e","n","d">>, <<"p","r","e","s","s"," ","c">>>> :
        h \in BlockHeaders, a \in ControlLines}
    \cup {<<RepeatHeader(n), Indented(1, RepeatHeader(m)), Indented(2, a),
            Indented(1, <<"e","n","d">>), <<"e","n","d">>>> :
            n \in 1..MaxRepeat, m \in 1..MaxRepeat,
            a \in {<<"p","r","e","s","s"," ","a">>, <<"a","b","o","r","t">>}}
    \cup {ScenarioA, ScenarioB, ScenarioC, <<>>}

InitLive ==
    /\ lines \in LiveScripts
    /\ clock = 0
    /\ macro = NoMacro
    /\ pc = "start"
    /\ variables = <<>>
    /\ stack = <<>>
    /\ trace = <<>>
    /\ result = NoResult
    /\ NoSubst
    /\ outline = <<>>
    /\ executions = 0
    /\ finder = NoCall
    /\ NoLoads
    /\ batch = NoBatch
    /\ second = NoSecond

\* the steps inside one execute_macro call
Executing ==
    \/ ExecuteCommand
    \/ EnterBlock
    \/ NextIteration
    \/ LeaveBlock
    \/ Return

NextLive ==
    \/ Next
    \/ Locate

SpecLive ==
    InitLive /\ [][NextLive]_vars /\ WF_vars(Executing) /\ WF_vars(Locate)

(***************************************************************************)
(* Specification of the template cache: the _load_template calls that the  *)
(* find_template calls of one TemplateMatcher make, each for a path that   *)
(* _get_template_path found.  An image is named by the number of the call  *)
(* that decoded it; 0 stands for None.                                     *)
(***************************************************************************)
MaxLoads == 4

Paths == {"a.png", "b.png"}

\* cv2.imread returns an image, returns None, or imread / resize raises
DecodeOutcomes == {"ok", "unreadable", "raises"}

\* variant: the decoded image is returned but not kept
LoadTemplateUnstored(cache, path, outcome, n) ==
    IF path \in DOMAIN cache
    THEN [image |-> cache[path], template_cache |-> cache, read |-> FALSE]
    ELSE IF outcome = "ok"
    THEN [image |-> n, template_cache |-> cache, read |-> TRUE]
    ELSE [image |-> 0, template_cache |-> cache, read |-> TRUE]

\* TemplateMatcher._load_template; n names the image a decode makes.
\* Gives the image returned, the cache after the call and whether imread
\* was called.
_load_template(cache, path, outcome, n) ==
    IF path \in DOMAIN cache
    THEN [image |-> cache[path], template_cache |-> cache, read |-> FALSE]
    ELSE IF outcome = "ok"
    THEN [image |-> n,
          template_cache |->
              [p \in DOMAIN cache \cup {path} |->
                  IF p = path THEN n ELSE cache[p]],
          read |-> TRUE]
    ELSE [image |-> 0, template_cache |-> cache, read |-> TRUE]

\* find_template's call of _load_template
LoadTemplate ==
    /\ Len(loads) < MaxLoads
    /\ \E path \in Paths, outcome \in DecodeOutcomes :
          \E r \in {_load_template(template_cache, path, outcome,
                                   Len(loads) + 1)} :
              /\ template_cache' = r.template_cache
              /\ loads' = Append(loads, [path |-> path, read |-> r.read,
                                         image |-> r.image,
                                         cache |-> r.template_cache])
    /\ UNCHANGED <<lines, clock, macro, pc, variables, stack, trace, result,
                   outline, executions, finder, batch, second>>
    /\ SubstUnchanged

InitCache == InitLocate

NextCache == LoadTemplate

SpecCache == InitCache /\ [][NextCache]_vars

(***************************************************************************)
(* Specification of one _match_template call: the best location max_loc    *)
(* = (x, y) of a template of shape (height, width) in a capture, its score *)
(* max_val, the threshold find_template passes on, and the display-density *)
(* ratio retina_scale, a whole number here.  Lengths are in pixels.        *)
(***************************************************************************)
MaxPixel == 3

MaxScale == 3

Pixels == 0..MaxPixel

Sizes == 1..(MaxPixel + 1)

\* variant: the center is left in the capture's pixels
CenterUncorrected(max_loc, shape, retina_scale) ==
    <<max_loc[1] + shape[2] \div 2, max_loc[2] + shape[1] \div 2>>

\* (center_x, center_y) of a found match: the center of the template at
\* max_loc, divided by retina_scale and cut to a whole number by int()
CenterOf(max_loc, shape, retina_scale) ==
    IF retina_scale # 1
    THEN <<(max_loc[1] + shape[2] \div 2) \div retina_scale,
           (max_loc[2] + shape[1] \div 2) \div retina_scale>>
    ELSE <<max_loc[1] + shape[2] \div 2, max_loc[2] + shape[1] \div 2>>

\* the call of _match_template in the loop of find_template
MatchTemplate ==
    /\ finder.pc = "match"
    /\ \E match \in {_match_template(finder.outcome, finder.confidence)} :
          finder' =
              [finder EXCEPT
                  !.pc = "matched",
                  !.result = match,
                  !.center =
                      IF match.found
                      THEN CenterOf(finder.max_loc, finder.shape,
                                    finder.retina_scale)
                      ELSE <<0, 0>>]
    /\ UNCHANGED clock
    /\ LocateIdle

InitMatch ==
    /\ lines = <<>>
    /\ clock = 0
    /\ macro = NoMacro
    /\ pc = "start"
    /\ variables = <<>>
    /\ stack = <<>>
    /\ trace = <<>>
    /\ result = NoResult
    /\ NoSubst
    /\ outline = <<>>
    /\ executions = 0
    /\ NoLoads
    /\ batch = NoBatch
    /\ second = NoSecond
    /\ \E max_loc \in Pixels \X Pixels, shape \in Sizes \X Sizes,
          retina_scale \in 1..MaxScale, outcome \in MatchOutcomes,
          confidence \in ConfidenceArguments :
          finder = [pc |-> "match", max_loc |-> max_loc, shape |-> shape,
                    retina_scale |-> retina_scale, outcome |-> outcome,
                    confidence |-> ThresholdInForce(confidence),
                    result |-> MatchResult(FALSE, 0), center |-> <<0, 0>>]

NextMatch == MatchTemplate

SpecMatch == InitMatch /\ [][NextMatch]_vars

(***************************************************************************)
(* Specification of click_template: the result of its find_template call   *)
(* (a match with its center, or none), then the pointer click, which       *)
(* returns or raises.                                                      *)
(***************************************************************************)
ClickOutcomes == {"ok", "raises"}

\* variant: the click is made whatever the locator returned
ClickTemplateAlways(match, center, outcome) ==
    [clicks |-> <<center>>, returned |-> outcome = "ok"]

\* TemplateMatcher.click_template after its find_template call: the
\* pyautogui.click calls made, and the value returned
click_template(match, center, outcome) ==
    IF match.found
    THEN [clicks |-> <<center>>, returned |-> outcome = "ok"]
    ELSE [clicks |-> <<>>, returned |-> FALSE]

ClickTemplate ==
    /\ finder.pc = "matched"
    /\ \E outcome \in ClickOutcomes :
          \E done \in {click_template(finder.result, finder.center,
                                      outcome)} :
              finder' = [pc |-> "clicked", call |-> finder,
                         outcome |-> outcome, clicks |-> done.clicks,
                         returned |-> done.returned]
    /\ UNCHANGED clock
    /\ LocateIdle

NextClick ==
    \/ MatchTemplate
    \/ ClickTemplate

SpecClick == InitMatch /\ [][NextClick]_vars


(***************************************************************************)
(* Specification of SimpleExecutorEnhanced.execute_atlas_file: a file of   *)
(* at most MaxFileLines lines (or no file), parsed into its command lines  *)
(* and executed one line at a time.  The handlers that drive an actuator   *)
(* return or raise; wait and repeat succeed by their argument alone.       *)
(* Messages are given in English; execution_time is left out.              *)
(***************************************************************************)
MaxFileLines == 3

FileLines ==
    {<<"r","e","p","e","a","t"," ","2",":">>, <<"r","e","p","e","a","t"," ","x">>, <<"P","R","E","S","S"," ","a">>, <<"w","a","i","t"," ","1","s">>, <<"b","o","g","u","s">>, <<"#"," ","n","o","t","e">>,
     <<" "," ","p","r","e","s","s"," ","b"," ">>, <<>>}

Files == UNION {[1..n -> FileLines] : n \in 1..MaxFileLines}

UpperCase == <<"A","B","C","D","E","F","G","H","I","J","K","L","M","N","O","P","Q","R","S","T","U","V","W","X","Y","Z">>
LowerCase == <<"a","b","c","d","e","f","g","h","i","j","k","l","m","n","o","p","q","r","s","t","u","v","w","x","y","z">>

\* str.lower on ASCII text
Lower(s) ==
    [i \in 1..Len(s) |->
        IF \E k \in 1..Len(UpperCase) : UpperCase[k] = s[i]
        THEN LowerCase[CHOOSE k \in 1..Len(UpperCase) : UpperCase[k] = s[i]]
        ELSE s[i]]

\* command.split(' ', 1); k is the position of the first space, 0 if none
SplitOnce(command, k) ==
    IF k = 0 THEN <<command, <<>>>>
    ELSE <<SubSeq(command, 1, k - 1), From(command, k)>>

\* SimpleExecutorEnhanced._parse_atlas_file: the stripped lines that are
\* neither blank nor comments
RECURSIVE _parse_atlas_file(_)
_parse_atlas_file(file) ==
    IF file = <<>> THEN <<>>
    ELSE (IF Strip(Head(file)) = <<>> \/ StartsWith(Strip(Head(file)), <<"#">>)
          THEN <<>> ELSE <<Strip(Head(file))>>)
         \o _parse_atlas_file(Tail(file))

\* SimpleExecutorEnhanced._execute_wait; float() succeeds on digits and
\* raises on the words used here
SimpleWait(duration) ==
    IF IsDigits(IF EndsWith(duration, <<"s">>)
                THEN SubSeq(duration, 1, Len(duration) - 1) ELSE duration)
    THEN ExecutionResult(TRUE, <<"W","a","i","t","e","d"," ">> \o duration)
    ELSE ExecutionResult(FALSE, <<"W","a","i","t"," ","e","r","r","o","r">>)

\* SimpleExecutorEnhanced._execute_repeat
SimpleRepeat(repeat_params) ==
    IF IsDigits(Strip(RStripChars(repeat_params, {":"})))
    THEN ExecutionResult(TRUE, <<"L","o","o","p"," ","r","e","p","e","a","t"," ">>
                               \o Strip(RStripChars(repeat_params, {":"})))
    ELSE ExecutionResult(FALSE, <<"B","a","d"," ","r","e","p","e","a","t"," ","c","o","u","n","t",":"," ">> \o repeat_params)

\* a handler around one actuator call: open, click, type, press, hotkey,
\* scroll
ActuatorHandler(action, args, outcome) ==
    IF outcome = "ok" THEN ExecutionResult(TRUE, <<"D","o","n","e",":"," ">> \o action)
    ELSE ExecutionResult(FALSE, <<"E","r","r","o","r",":"," ">> \o action)

ActuatorActions ==
    {<<"o","p","e","n">>, <<"c","l","i","c","k">>, <<"t","y","p","e">>, <<"p","r","e","s","s">>, <<"h","o","t","k","e","y">>, <<"s","c","r","o","l","l">>}

\* the routing of SimpleExecutorEnhanced._execute_command
RouteLine(action, args, outcome) ==
    IF action \in ActuatorActions THEN ActuatorHandler(action, args, outcome)
    ELSE IF action = <<"w","a","i","t">> THEN SimpleWait(args)
    ELSE IF action = <<"r","e","p","e","a","t">> THEN SimpleRepeat(args)
    ELSE ExecutionResult(FALSE, <<"U","n","k","n","o","w","n"," ","c","o","m","m","a","n","d",":"," ">> \o action)

\* SimpleExecutorEnhanced._execute_command
ExecuteLine(command, outcome) ==
    IF Strip(command) = <<>> THEN ExecutionResult(TRUE, <<"E","m","p","t","y"," ","c","o","m","m","a","n","d">>)
    ELSE \* parts = command.split(' ', 1)
         RouteLine(Lower(SplitOnce(Strip(command),
                                   FindFrom(Strip(command), <<" ">>, 1))[1]),
                   SplitOnce(Strip(command),
                             FindFrom(Strip(command), <<" ">>, 1))[2],
                   outcome)

\* what the actuator behind a command line can do
LineOutcomes(command) ==
    IF Lower(SplitOnce(command, FindFrom(command, <<" ">>, 1))[1])
           \in ActuatorActions
    THEN {"ok", "raises"} ELSE {"ok"}

\* variant: every failure ends the file
StopsAtFailure(continue_on_error, r) == ~r.success

\* the early return of execute_atlas_file after a command
Stops(continue_on_error, r) == ~r.success /\ ~continue_on_error

\* execute_atlas_file up to its loop: the missing file, or the parse
ExecuteAtlasFile ==
    /\ batch.pc = "called"
    /\ batch' = IF batch.exists
                THEN [batch EXCEPT !.pc = "loop",
                                   !.commands = _parse_atlas_file(batch.file)]
                ELSE [batch EXCEPT !.pc = "returned",
                                   !.result = ExecutionResult(FALSE,
                                                  <<"F","i","l","e"," ","n","o","t"," ","f","o","u","n","d">>)]
    /\ BatchIdle

\* one iteration of the loop of execute_atlas_file
ExecuteFileCommand ==
    /\ batch.pc = "loop"
    /\ batch.i <= Len(batch.commands)
    /\ \E outcome \in LineOutcomes(batch.commands[batch.i]) :
          \E r \in {ExecuteLine(batch.commands[batch.i], outcome)} :
              batch' =
                  IF Stops(batch.continue_on_error, r)
                  THEN [batch EXCEPT
                          !.pc = "returned",
                          !.attempted = Append(@, [i |-> batch.i, result |-> r]),
                          !.failed_commands = Append(@, r.message),
                          !.result = ExecutionResult(FALSE,
                                         <<"E","r","r","o","r"," ","a","t"," ","c","o","m","m","a","n","d"," ">> \o NatStr(batch.i)
                                         \o <<":"," ">> \o r.message)]
                  ELSE [batch EXCEPT
                          !.i = @ + 1,
                          !.attempted = Append(@, [i |-> batch.i, result |-> r]),
                          !.failed_commands =
                              IF r.success THEN @ ELSE Append(@, r.message)]
    /\ BatchIdle

\* the final message of execute_atlas_file for n commands, failed of them
\* unsuccessful
FinalMessage(n, failed) ==
    IF failed > 0
    THEN <<"M","a","c","r","o"," ","d","o","n","e"," ","w","i","t","h"," ","e","r","r","o","r","s"," ","(">> \o NatStr(n - failed) \o <<"/">>
         \o NatStr(n) \o <<" ","c","o","m","m","a","n","d","s",")">>
    ELSE <<"M","a","c","r","o"," ","d","o","n","e"," ","(">> \o NatStr(n) \o <<" ","c","o","m","m","a","n","d","s",")">>

\* execute_atlas_file after its loop
FinishFile ==
    /\ batch.pc = "loop"
    /\ batch.i > Len(batch.commands)
    /\ batch' = [batch EXCEPT
                   !.pc = "returned",
                   !.result = ExecutionResult(TRUE,
                                  FinalMessage(Len(batch.commands),
                                               Len(batch.failed_commands)))]
    /\ BatchIdle

InitFile ==
    /\ lines = <<>>
    /\ clock = 0
    /\ macro = NoMacro
    /\ pc = "start"
    /\ variables = <<>>
    /\ stack = <<>>
    /\ trace = <<>>
    /\ result = NoResult
    /\ NoSubst
    /\ outline = <<>>
    /\ executions = 0
    /\ finder = NoCall
    /\ NoLoads
    /\ second = NoSecond
    /\ \E exists \in BOOLEAN, continue_on_error \in BOOLEAN :
          \E file \in (IF exists THEN Files ELSE {<<>>}) :
              batch = [pc |-> "called", exists |-> exists, file |-> file,
                       continue_on_error |-> continue_on_error,
                       commands |-> <<>>, i |-> 1, attempted |-> <<>>,
                       failed_commands |-> <<>>,
                       result |-> ExecutionResult(FALSE, None)]

NextFile ==
    \/ ExecuteAtlasFile
    \/ ExecuteFileCommand
    \/ FinishFile

SpecFile == InitFile /\ [][NextFile]_vars

(***************************************************************************)
(* Specification of two AtlasExecutor instances at work at once: the       *)
(* executor of Spec, and a second one with a macro of its own.  Each step  *)
(* of either is one command, in any interleaving.  The second executor's   *)
(* macros are sequences of commands without blocks.                        *)
(***************************************************************************)
FirstScripts ==
    {<<<<"s","e","t","_","v","a","r","i","a","b","l","e"," ","x","=","\"","a","\"">>, <<"t","y","p","e"," ","\"","$","{","x","}","\"">>, <<"t","y","p","e"," ","\"","$","{","y","}","\"">>>>,
     <<<<"r","e","p","e","a","t"," ","2",":">>, Indented(1, <<"s","e","t","_","v","a","r","i","a","b","l","e"," ","y","=","\"","a","\"">>),
       Indented(1, <<"t","y","p","e"," ","\"","$","{","y","}","$","{","x","}","\"">>), <<"e","n","d">>, <<"t","y","p","e"," ","\"","$","{","y","}","\"">>>>,
     <<<<"t","y","p","e"," ","\"","$","{","x","}","\"">>, <<"s","e","t","_","v","a","r","i","a","b","l","e"," ","x","=","\"","a","\"">>, <<"t","y","p","e"," ","\"","$","{","x","}","\"">>>>}

SecondScripts ==
    {<<<<"s","e","t","_","v","a","r","i","a","b","l","e"," ","x","=","\"","b","\"">>, <<"t","y","p","e"," ","\"","$","{","x","}","\"">>, <<"t","y","p","e"," ","\"","$","{","y","}","\"">>>>,
     <<<<"t","y","p","e"," ","\"","$","{","y","}","\"">>, <<"s","e","t","_","v","a","r","i","a","b","l","e"," ","y","=","\"","b","\"">>, <<"t","y","p","e"," ","\"","$","{","x","}","$","{","y","}","\"">>>>,
     <<<<"t","y","p","e"," ","\"","$","{","x","}","\"">>, <<"t","y","p","e"," ","\"","$","{","y","}","\"">>>>}

\* variant: a store that belongs to the class, the same for every instance
ClassVariables(own, theirs) == theirs

\* self.variables of an executor, beside that of the other instance
SelfVariables(own, theirs) == own

\* what a step of the second executor leaves alone
SecondIdle ==
    /\ UNCHANGED <<lines, clock, macro, pc, variables, stack, trace, result,
                   outline, executions, finder, template_cache, loads,
                   batch>>
    /\ SubstUnchanged

\* the record of one command of the second executor: the store its handler
\* was given, what the handler did, and the store of the other executor at
\* that time
SecondEvent(i, h, outcome, store, beside) ==
    [i |-> i, success |-> h.success, calls |-> h.calls,
     outcome |-> outcome, store |-> store, beside |-> beside]

\* execute_macro of the second executor, up to its loop
SecondExecuteMacro ==
    /\ second.pc = "parsed"
    /\ second' = [second EXCEPT
                    !.pc = "running",
                    !.variables = Update(SelfVariables(@, variables),
                                         second.macro.variables)]
    /\ SecondIdle

\* one iteration of the loop of execute_macro in the second executor
SecondExecuteCommand ==
    /\ second.pc = "running"
    /\ second.i <= Len(second.macro.commands)
    /\ \E outcome \in Outcomes(second.macro.commands[second.i]) :
          \E store \in {SelfVariables(second.variables, variables)} :
              \E h \in {_execute_command(second.macro.commands[second.i],
                                         store, outcome)} :
                  second' = [second EXCEPT
                               !.pc = IF h.success THEN "running" ELSE "done",
                               !.i = @ + 1,
                               !.variables = h.variables,
                               !.trace = Append(@, SecondEvent(second.i, h,
                                                       outcome, store,
                                                       variables)),
                               !.success = h.success]
    /\ SecondIdle

\* the return of execute_macro in the second executor after its loop
SecondReturn ==
    /\ second.pc = "running"
    /\ second.i > Len(second.macro.commands)
    /\ second' = [second EXCEPT !.pc = "done", !.success = TRUE]
    /\ SecondIdle

InitTwo ==
    /\ lines \in FirstScripts
    /\ clock = 0
    /\ macro = NoMacro
    /\ pc = "start"
    /\ variables = <<>>
    /\ stack = <<>>
    /\ trace = <<>>
    /\ result = NoResult
    /\ NoSubst
    /\ outline = <<>>
    /\ executions = 0
    /\ finder = NoCall
    /\ NoLoads
    /\ batch = NoBatch
    /\ \E script \in SecondScripts :
          second = [pc |-> "parsed", macro |-> parse_content(script, 0),
                    variables |-> <<>>, i |-> 1, trace |-> <<>>,
                    success |-> FALSE]

NextTwo ==
    \/ ParseContent
    \/ ExecuteMacro
    \/ ExecuteCommand
    \/ EnterBlock
    \/ NextIteration
    \/ LeaveBlock
    \/ Return
    \/ SecondExecuteMacro
    \/ SecondExecuteCommand
    \/ SecondReturn

SpecTwo == InitTwo /\ [][NextTwo]_vars
(***************************************************************************)
(* Properties.  The history variable trace holds, in order, one "exec"     *)
(* event per command executed, one "enter" event per block whose loop was  *)
(* started and one "leave" event per block that returned.                  *)
(***************************************************************************)
IsResult(e) == e.ev \in {"exec", "leave"}

IsTopResult(e) == IsResult(e) /\ Len(e.path) = 1

IsPrefix(p, q) == Len(p) <= Len(q) /\ SubSeq(q, 1, Len(p)) = p

IsChildOf(q, p) == Len(q) = Len(p) + 1 /\ IsPrefix(p, q)

Last(path) == path[Len(path)]

\* the node an event is about
NodeOf(e) == NodeAt(macro.commands, e.path)

IsExecOf(e, command_type) ==
    e.ev = "exec" /\ NodeOf(e).command_type = command_type

IsLeaveOf(e, block_type) ==
    e.ev = "leave" /\ NodeOf(e).block_type = block_type

IsEnterOf(e, block_type) ==
    e.ev = "enter" /\ NodeOf(e).block_type = block_type

\* the event that started the loop of the block that trace[j] leaves
EnterOf(j) ==
    CHOOSE k \in 1..(j - 1) :
        /\ trace[k] = EnterEvent(trace[j].path)
        /\ \A i \in (k + 1)..(j - 1) : trace[i] # EnterEvent(trace[j].path)

\* the results of the children of the block that trace[j] leaves, returned
\* since the loop was started at trace[k]
ChildResults(j, k) ==
    {i \in (k + 1)..(j - 1) :
        IsResult(trace[i]) /\ IsChildOf(trace[i].path, trace[j].path)}

ChildResultsOf(j) == ChildResults(j, EnterOf(j))

\* how many results of I came before trace[i]
Rank(I, i) == Cardinality({h \in I : h < i})

Failures(I) == {i \in I : ~trace[i].success}

\* every block whose loop was started has returned
EveryLoopLeft(block_type) ==
    \A k \in 1..Len(trace) :
        IsEnterOf(trace[k], block_type) =>
            \E j \in (k + 1)..Len(trace) :
                trace[j].ev = "leave" /\ trace[j].path = trace[k].path

TopResults == SelectSeq(trace, IsTopResult)

(***************************************************************************)
(* C1: execute_macro runs the top-level nodes in source order and stops at *)
(* the first one whose result has success = False: that result is the last *)
(* event of the execution, nothing after it is dispatched, and the final   *)
(* result is a failure whose message ends with the node's message.  When   *)
(* no top-level node fails, every one of them has run and the macro        *)
(* succeeds.                                                               *)
(***************************************************************************)
FailedTopResult(k) == IsTopResult(trace[k]) /\ ~trace[k].success

C1_FailFast ==
    /\ \A n \in 1..Len(TopResults) : TopResults[n].path = <<n>>
    /\ \A k \in 2..Len(trace) :
          /\ trace[k - 1].path[1] <= trace[k].path[1]
          /\ trace[k - 1].path[1] < trace[k].path[1] =>
                IsTopResult(trace[k - 1]) /\ trace[k - 1].success
    /\ \A k \in 1..Len(trace) :
          FailedTopResult(k) =>
             /\ k = Len(trace)
             /\ pc = "done"
             /\ result.success = FALSE
             /\ result.message = <<"Error at command ">>
                    \o NatStr(trace[k].path[1]) \o <<": ">> \o trace[k].message
    /\ (pc = "done" /\ \A k \in 1..Len(trace) : ~FailedTopResult(k)) =>
          /\ Len(TopResults) = Len(macro.commands)
          /\ result.success = TRUE

\* a macro stopped at a failed top-level node that is not its last
C1_Witness ==
    /\ pc = "done"
    /\ \E k \in 1..Len(trace) :
          FailedTopResult(k) /\ trace[k].path[1] < Len(macro.commands)

(***************************************************************************)
(* C2: an abort command is fatal wherever it appears: once it has          *)
(* executed, no command is executed after it and the final result of       *)
(* execute_macro has success = False.                                      *)
(***************************************************************************)
C2_AbortFatal ==
    \A k \in 1..Len(trace) :
        IsExecOf(trace[k], "abort") =>
            /\ \A j \in (k + 1)..Len(trace) : trace[j].ev # "exec"
            /\ pc = "done" => result.success = FALSE

(***************************************************************************)
(* C3: a try block attempts every one of its children in source order,     *)
(* however many of them fail, and its own result is always success; in     *)
(* scenario C the log command runs and the macro succeeds.                 *)
(***************************************************************************)
AllAttempted(j, I) ==
    /\ Cardinality(I) = Len(NodeOf(trace[j]).commands)
    /\ \A i \in I : Last(trace[i].path) = Rank(I, i) + 1

C3_TryAttemptsAll ==
    /\ \A j \in 1..Len(trace) :
          IsLeaveOf(trace[j], "try") =>
             /\ trace[j].success = TRUE
             /\ AllAttempted(j, ChildResultsOf(j))
    /\ pc = "done" => EveryLoopLeft("try")
    /\ (pc = "done" /\ lines = ScenarioC) =>
          /\ result.success = TRUE
          /\ \E k \in 1..Len(trace) :
                /\ trace[k].ev = "exec"
                /\ trace[k].path = <<1, 2>>
                /\ trace[k].calls = <<Call("logger.info", <<<<"a","f","t","e","r">>>>)>>

\* a try block that returned after two of its children failed
C3_Witness ==
    \E j \in 1..Len(trace) :
        /\ IsLeaveOf(trace[j], "try")
        /\ Cardinality(Failures(ChildResultsOf(j))) >= 2

(***************************************************************************)
(* C4: repeat N executes its children in strict source order, iteration    *)
(* after iteration, for N iterations; the first child failure ends the     *)
(* block with that failure: no later child and no later iteration runs.    *)
(***************************************************************************)
IsRepeatLeft(j) ==
    IsLeaveOf(trace[j], "repeat") /\ ParseInt(NodeOf(trace[j]).condition).ok

\* n children, count iterations, I the child results
RepeatedInOrder(j, I, n, count) ==
    /\ \A i \in I : Last(trace[i].path) = (Rank(I, i) % n) + 1
    /\ \A i \in I :
          ~trace[i].success =>
             /\ Rank(I, i) = Cardinality(I) - 1
             /\ trace[j].success = FALSE
             /\ trace[j].message = trace[i].message
    /\ trace[j].success => Cardinality(I) = count * n
    /\ ~trace[j].success => Failures(I) # {}

C4_RepeatInOrder ==
    /\ \A j \in 1..Len(trace) :
          IsRepeatLeft(j) =>
              RepeatedInOrder(j, ChildResultsOf(j),
                  Len(NodeOf(trace[j]).commands),
                  ParseInt(NodeOf(trace[j]).condition).value)
    /\ pc = "done" => EveryLoopLeft("repeat")

\* a repeat block ended by a failure in its second iteration
C4_Witness ==
    \E j \in 1..Len(trace) :
        /\ IsRepeatLeft(j)
        /\ trace[j].success = FALSE
        /\ Cardinality(ChildResultsOf(j)) > Len(NodeOf(trace[j]).commands)
        /\ Cardinality(ChildResultsOf(j)) <
              Len(NodeOf(trace[j]).commands)
                  * ParseInt(NodeOf(trace[j]).condition).value

(***************************************************************************)
(* C5: a template click whose reference image is never found on the screen *)
(* has success = False and issues no pointer click; scenario B with such   *)
(* an image fails in its first iteration.                                  *)
(***************************************************************************)
IsTemplateClick(e) ==
    /\ IsExecOf(e, "click")
    /\ NodeOf(e).parameters.type = "template"

C5_TemplateClickFails ==
    /\ \A k \in 1..Len(trace) :
          (IsTemplateClick(trace[k]) /\ trace[k].outcome = "error") =>
              trace[k].success = FALSE /\ trace[k].calls = <<>>
    /\ (pc = "done" /\ lines = ScenarioB
            /\ \A k \in 1..Len(trace) :
                  IsTemplateClick(trace[k]) => trace[k].outcome = "error") =>
          result.success = FALSE /\ Len(trace) <= 3

(***************************************************************************)
(* C6: a failing command other than abort makes execute_macro report       *)
(* failure if and only if no block that encloses it is a try.  With a try  *)
(* around it, the failure ends the repeat blocks inside that try only: the *)
(* try returns success and the node after the try runs.                    *)
(***************************************************************************)
HasTryAncestor(path) ==
    \E n \in 1..(Len(path) - 1) :
        NodeAt(macro.commands, SubSeq(path, 1, n)).block_type = "try"

\* the innermost try block around path
TryAround(path) ==
    SubSeq(path, 1,
        CHOOSE n \in 1..(Len(path) - 1) :
            /\ NodeAt(macro.commands, SubSeq(path, 1, n)).block_type = "try"
            /\ \A h \in (n + 1)..(Len(path) - 1) :
                  NodeAt(macro.commands, SubSeq(path, 1, h)).block_type # "try")

IsFailedCommand(e) ==
    e.ev = "exec" /\ ~e.success /\ NodeOf(e).command_type # "abort"

\* execute_macro has returned the failure of trace[k]
ReportsFailureOf(k) ==
    /\ pc = "done"
    /\ result.success = FALSE
    /\ EndsWith(result.message, trace[k].message)
    /\ \A j \in (k + 1)..Len(trace) :
          /\ trace[j].ev = "leave"
          /\ trace[j].success = FALSE
          /\ IsPrefix(trace[j].path, trace[k].path)

HasNextSibling(path) ==
    Last(path) < Len(ChildrenAt(macro, SubSeq(path, 1, Len(path) - 1)))

NextSibling(path) == [path EXCEPT ![Len(path)] = @ + 1]

\* the try block at path t returns success after trace[k], everything in
\* between is inside it, and then the node after it runs
ContainedBy(k, t) ==
    \E j \in (k + 1)..Len(trace) :
        /\ trace[j] = LeaveEvent(t, ExecutionResult(TRUE, <<"Try block done">>))
        /\ \A i \in (k + 1)..(j - 1) : IsPrefix(t, trace[i].path)
        /\ HasNextSibling(t) =>
              /\ j < Len(trace)
              /\ IsPrefix(NextSibling(t), trace[j + 1].path)

C6_Containment ==
    \A k \in 1..Len(trace) :
        IsFailedCommand(trace[k]) =>
            /\ ReportsFailureOf(k) <=> ~HasTryAncestor(trace[k].path)
            /\ (pc = "done" /\ HasTryAncestor(trace[k].path)) =>
                  ContainedBy(k, TryAround(trace[k].path))

\* a command failed in a repeat inside a try, and a command after the try ran
C6_Witness ==
    /\ pc = "done"
    /\ \E k \in 1..Len(trace) :
          /\ IsFailedCommand(trace[k])
          /\ Len(trace[k].path) = 3
          /\ NodeAt(macro.commands, SubSeq(trace[k].path, 1, 2)).block_type
                = "repeat"
          /\ HasTryAncestor(trace[k].path)
          /\ \E j \in (k + 1)..Len(trace) :
                trace[j].ev = "exec" /\ Len(trace[j].path) = 1

(***************************************************************************)
(* C7: the target that open, press and hotkey hand to their actuator is    *)
(* the command's target with every ${name} of the Variable Store replaced. *)
(***************************************************************************)
SubstitutedTarget(e) == _substitute_variables(NodeOf(e).target, e.store)

C7_TargetsSubstituted ==
    \A k \in 1..Len(trace) :
        /\ IsExecOf(trace[k], "open") =>
              trace[k].calls[1].args = <<<<"o","p","e","n">>, <<"-","a">>,
                                         SubstitutedTarget(trace[k])>>
        /\ IsExecOf(trace[k], "press") =>
              trace[k].calls[1].args = <<SubstitutedTarget(trace[k])>>
        /\ IsExecOf(trace[k], "hotkey") =>
              trace[k].calls[1].args = Split(SubstitutedTarget(trace[k]), "+")

(***************************************************************************)
(* C8: _substitute_variables is one pass over the original text: each      *)
(* ${name} of it whose name is stored is replaced by the stored value,     *)
(* which is not scanned again, and every other piece is left as it is.     *)
(***************************************************************************)
IsReference(piece) ==
    /\ Len(piece) > 3
    /\ SubSeq(piece, 1, 2) = <<"$","{">>
    /\ piece[Len(piece)] = "}"

ReferencedName(piece) == SubSeq(piece, 3, Len(piece) - 1)

ReplacedOnce(piece, store) ==
    IF IsReference(piece) /\ ReferencedName(piece) \in DOMAIN store
    THEN store[ReferencedName(piece)]
    ELSE piece

C8_SinglePass ==
    pc = "returned" =>
        substituted =
            Concat([i \in 1..Len(parts) |-> ReplacedOnce(parts[i], variables)])

\* x holds a reference to y, y is stored, an unknown ${z} is in the text, and
\* the reference to y that came from x is in the result
C8_Witness ==
    /\ pc = "returned"
    /\ <<"y">> \in DOMAIN variables
    /\ <<"x">> \in DOMAIN variables
    /\ variables[<<"x">>] = <<"$","{","y","}">>
    /\ variables[<<"y">>] = <<"v">>
    /\ parts = <<<<"$","{","x","}">>, <<"$","{","z","}">>, <<"$","{","y","}">>>>
    /\ substituted = <<"$","{","y","}","$","{","z","}","v">>

(***************************************************************************)
(* C9: `wait <N>ms` succeeds and blocks for N/1000 seconds.                *)
(***************************************************************************)
IsMillisecondsWait(e) ==
    /\ IsExecOf(e, "wait")
    /\ EndsWith(NodeOf(e).value, <<"m","s">>)
    /\ IsDigits(SubSeq(NodeOf(e).value, 1, Len(NodeOf(e).value) - 2))

Milliseconds(e) ==
    DigitsVal(SubSeq(NodeOf(e).value, 1, Len(NodeOf(e).value) - 2))

C9_WaitMilliseconds ==
    \A k \in 1..Len(trace) :
        IsMillisecondsWait(trace[k]) =>
            /\ trace[k].success = TRUE
            /\ trace[k].slept = Milliseconds(trace[k]) * (Micro \div 1000)

(***************************************************************************)
(* C10: every line of a script without blocks that is not blank, not a     *)
(* comment and fits no command grammar yields a comment command that holds *)
(* the line.                                                               *)
(***************************************************************************)
WithoutBlocks(ls) ==
    \A i \in 1..Len(ls) : ~StartsWithAny(Strip(ls[i]), TopBlockPrefixes)

FitsNoGrammar(line) ==
    /\ line # <<>>
    /\ ~StartsWith(line, <<"#">>)
    /\ \/ _parse_single_command(line, 0, line) = NoCommand
       \/ _parse_single_command(line, 0, line).command_type = "comment"

C10_UnmatchedLineIsComment ==
    (pc \in {"parsed", "running", "done"} /\ WithoutBlocks(lines)) =>
        \A i \in 1..Len(lines) :
            FitsNoGrammar(Strip(lines[i])) =>
                \E n \in 1..Len(macro.commands) :
                    /\ macro.commands[n].command_type = "comment"
                    /\ macro.commands[n].line_number = i
                    /\ macro.commands[n].value = Strip(lines[i])

(***************************************************************************)
(* C11: for a script written from an outline (every block closed by `end`  *)
(* at its header's indentation, its body indented deeper), the parsed tree *)
(* is the outline: the children of each Block are its body lines in source *)
(* order, nested blocks with their own children, and the line after `end`  *)
(* is the Block's next sibling.                                            *)
(***************************************************************************)
\* the header line a parsed block stands for
HeaderOf(block) ==
    CASE block.block_type = "if" -> <<"i","f"," ">> \o block.condition \o <<":">>
      [] block.block_type = "repeat" -> <<"r","e","p","e","a","t"," ">> \o block.condition \o <<":">>
      [] block.block_type = "try" -> <<"t","r","y",":">>
      [] OTHER -> block.condition \o <<":">>

RECURSIVE ShapesOf(_)
ShapeOf(node) ==
    IF node.node = "command" THEN Leaf(Strip(node.raw_line))
    ELSE Block(HeaderOf(node), ShapesOf(node.commands))

ShapesOf(nodes) == [i \in 1..Len(nodes) |-> ShapeOf(nodes[i])]

C11_BlockStructure ==
    (pc = "parsed" /\ outline # <<>>) => ShapesOf(macro.commands) = outline

(***************************************************************************)
(* C19: after parse, Macro.variables maps name to value for every          *)
(* well-formed set_variable line of the script, at top level or inside a   *)
(* block (the last such line of a name gives its value).                   *)
(***************************************************************************)
SetsVariable(line) == MatchSetVariable(Strip(line)).ok

SetName(line) == MatchSetVariable(Strip(line)).groups[1]

SetValue(line) == MatchSetVariable(Strip(line)).groups[2]

IsLastSetting(ls, i) ==
    /\ SetsVariable(ls[i])
    /\ \A j \in (i + 1)..Len(ls) :
          SetsVariable(ls[j]) => SetName(ls[j]) # SetName(ls[i])

C19_VariablesSeeded ==
    pc = "parsed" =>
        \A i \in 1..Len(lines) :
            IsLastSetting(lines, i) =>
                /\ SetName(lines[i]) \in DOMAIN macro.variables
                /\ macro.variables[SetName(lines[i])] = SetValue(lines[i])

(***************************************************************************)
(* The find_template call has returned / on a template that loaded.        *)
(***************************************************************************)
HasReturned == finder.pc = "returned"

Captures(log) == {i \in 1..Len(log) : log[i].e = "capture"}

Matches(log) == {i \in 1..Len(log) : log[i].e = "match"}

\* the matches that computed a score
Scored(log) == {i \in Matches(log) : log[i].ok}

(***************************************************************************)
(* C12: a call with a timeout that is zero or negative, on a template that *)
(* loads, has made exactly one screen capture and one match when it        *)
(* returns.                                                                *)
(***************************************************************************)
C12_OneProbeWithoutTimeout ==
    (HasReturned /\ Loaded(finder.image) /\ finder.timeout <= 0) =>
        /\ Cardinality(Captures(finder.log)) = 1
        /\ Cardinality(Matches(finder.log)) = 1

(***************************************************************************)
(* C13: a call that returns not found after probes that computed a score   *)
(* carries as confidence the best of those scores.                         *)
(***************************************************************************)
C13_BestScoreOnTimeout ==
    (HasReturned /\ ~finder.result.found /\ Scored(finder.log) # {}) =>
        /\ \E i \in Scored(finder.log) :
              finder.result.confidence = finder.log[i].max_val
        /\ \A i \in Scored(finder.log) :
              finder.result.confidence >= finder.log[i].max_val

C15_MissingImageFailsAtOnce ==
    (finder # NoCall /\ ~(finder.image = "ok")) =>
        /\ HasReturned
        /\ ~finder.result.found
        /\ finder.log = <<>>
        /\ finder.returned_at = finder.start_time
        /\ clock = finder.start_time

C15_Witness ==
    /\ HasReturned
    /\ finder.image = "undecodable"
    /\ finder.timeout > 0

(***************************************************************************)
(* C16: between any two consecutive screen captures of a call, failed ones *)
(* included, the call has slept the retry interval.                        *)
(***************************************************************************)
C16_SleepsBetweenAttempts ==
    finder # NoCall =>
        \A i \in Captures(finder.log) :
            \A j \in Captures(finder.log) :
                i < j => \E k \in (i + 1)..(j - 1) :
                             finder.log[k].e = "sleep"

(***************************************************************************)
(* C17: a call returns found only on a match whose score is at or above    *)
(* the threshold in force (the caller's, or 0.8 when none is given); the   *)
(* confidence returned is that score; it is the first such match of the    *)
(* call and the last thing the call did.                                   *)
(***************************************************************************)
Threshold(call) == IF call.args.given THEN call.args.value ELSE 80

C17_FoundOnlyAboveThreshold ==
    (HasReturned /\ finder.result.found) =>
        /\ finder.log # <<>>
        /\ Last(finder.log).e = "match"
        /\ Last(finder.log).ok
        /\ Last(finder.log).max_val >= Threshold(finder)
        /\ finder.result.confidence = Last(finder.log).max_val
        /\ \A i \in Scored(finder.log) :
              i < Len(finder.log) =>
                  finder.log[i].max_val < Threshold(finder)
        /\ clock = finder.returned_at

C17_Witness ==
    /\ HasReturned
    /\ finder.result.found
    /\ ~finder.args.given
    /\ \E i \in Scored(finder.log) : i < Len(finder.log)

(***************************************************************************)
(* C18: at the start of every execute_macro call, before any command has   *)
(* run, the Variable Store holds exactly the macro's variables: nothing    *)
(* written during an earlier call on the same executor is left in it.      *)
(***************************************************************************)
AtExecutionStart == pc = "running" /\ trace = <<>>

C18_StoreLivesOneExecution ==
    AtExecutionStart =>
        /\ DOMAIN variables = DOMAIN macro.variables
        /\ \A n \in DOMAIN variables : variables[n] = macro.variables[n]

(***************************************************************************)
(* C20: a repeat block with count 0 returns success at once: none of its   *)
(* children is executed or entered (so no actuator is called and the       *)
(* Variable Store is not written inside it), and the node after the block  *)
(* is the next to run.                                                     *)
(***************************************************************************)
IsRepeatZeroEntered(e) ==
    /\ IsEnterOf(e, "repeat")
    /\ NodeOf(e).condition = <<"0">>

RepeatZeroSkipped(i) ==
    /\ \A j \in 1..Len(trace) :
          IsPrefix(trace[i].path, trace[j].path) =>
              trace[j].path = trace[i].path
    /\ i < Len(trace) =>
          /\ trace[i + 1].ev = "leave"
          /\ trace[i + 1].path = trace[i].path
          /\ trace[i + 1].success
    /\ i + 1 < Len(trace) =>
          /\ HasNextSibling(trace[i].path) =>
                trace[i + 2].path = NextSibling(trace[i].path)
    /\ pc = "done" =>
          /\ i < Len(trace)
          /\ HasNextSibling(trace[i].path) => i + 1 < Len(trace)

C20_RepeatZero ==
    macro # NoMacro =>
        \A i \in 1..Len(trace) :
            IsRepeatZeroEntered(trace[i]) => RepeatZeroSkipped(i)

C20_Witness ==
    /\ pc = "done"
    /\ \E i \in 1..Len(trace) :
          /\ IsRepeatZeroEntered(trace[i])
          /\ NodeOf(trace[i]).commands # <<>>
          /\ i + 1 < Len(trace)
          /\ trace[i + 2].ev = "exec"
          /\ trace[i + 2].path = NextSibling(trace[i].path)

(***************************************************************************)
(* C21: an if block returns success without running anything inside it,    *)
(* whatever its condition: no event of the history is about a node inside  *)
(* an if block, the step that returns from the block leaves the Variable   *)
(* Store as it was, and the node after the block is the next to run.       *)
(***************************************************************************)
InsideIf(path) ==
    \E k \in 1..(Len(path) - 1) :
        NodeAt(macro.commands, SubSeq(path, 1, k)).block_type = "if"

IfSkipped(i) ==
    /\ trace[i].success
    /\ i < Len(trace) =>
          /\ HasNextSibling(trace[i].path) =>
                trace[i + 1].path = NextSibling(trace[i].path)
    /\ pc = "done" =>
          /\ HasNextSibling(trace[i].path) => i < Len(trace)

IfBlocksSkipped ==
    macro # NoMacro =>
        \A i \in 1..Len(trace) :
            /\ ~InsideIf(trace[i].path)
            /\ IsLeaveOf(trace[i], "if") => IfSkipped(i)

\* a step that returns from an if block
ReturnsFromIf ==
    /\ pc = "running"
    /\ Len(trace') > Len(trace)
    /\ trace'[Len(trace) + 1].ev = "leave"
    /\ NodeAt(macro.commands, trace'[Len(trace) + 1].path).block_type = "if"

C21_IfIsNoOp ==
    /\ []IfBlocksSkipped
    /\ [][ReturnsFromIf => variables' = variables]_vars

C21_Witness ==
    /\ pc = "done"
    /\ \E i \in 1..(Len(trace) - 1) :
          /\ IsLeaveOf(trace[i], "if")
          /\ NodeOf(trace[i]).condition = <<"f","a","l","s","e">>
          /\ NodeOf(trace[i]).commands # <<>>
          /\ trace[i + 1].ev = "exec"
          /\ trace[i + 1].path = NextSibling(trace[i].path)

(***************************************************************************)
(* C22: when a macro without blocks has been executed and every command    *)
(* succeeded, the final result is a success and the history is one event   *)
(* per command, in source order, each with exactly one actuator call when  *)
(* the command is actuator-backed (open, click, type, press, hotkey,       *)
(* system_command and the selenium commands) and with none otherwise.      *)
(***************************************************************************)
ActuatorBacked ==
    {"open", "click", "type", "press", "hotkey", "system_command",
     "selenium_init", "selenium_click", "selenium_type", "selenium_close"}

IsStraightLine(m) ==
    \A i \in 1..Len(m.commands) : m.commands[i].node = "command"

EveryCommandSucceeded == \A i \in 1..Len(trace) : trace[i].success

\* the calls of subprocess and pyautogui; the logger is no actuator
IsActuatorCall(call) == call.op # "logger.info"

ActuatorCalls(e) == SelectSeq(e.calls, IsActuatorCall)

OneCallPerCommand(kinds) ==
    /\ result.success
    /\ Len(trace) = Len(macro.commands)
    /\ \A i \in 1..Len(trace) :
          /\ trace[i].path = <<i>>
          /\ Len(ActuatorCalls(trace[i])) =
                IF macro.commands[i].command_type \in kinds THEN 1 ELSE 0

C22_OneCallPerCommand ==
    (pc = "done" /\ IsStraightLine(macro) /\ EveryCommandSucceeded) =>
        OneCallPerCommand(ActuatorBacked)

(***************************************************************************)
(* C23: when execute_macro is done, whatever the macro held (a repeat      *)
(* count that is no number, a block of unknown kind, an actuator call that *)
(* raised), its result has a message that is not empty and an execution    *)
(* time that is set and not negative; when a top-level node failed the     *)
(* result has success = False.                                             *)
(***************************************************************************)
IsReturnedResult(r) ==
    /\ r # NoResult
    /\ r.message # None
    /\ r.message # <<>>
    /\ r.execution_time >= 0

C23_AlwaysReturnsResult ==
    pc = "done" =>
        /\ IsReturnedResult(result)
        /\ (\E k \in 1..Len(trace) : FailedTopResult(k)) => ~result.success

C23_Witness ==
    /\ pc = "done"
    /\ ~result.success
    /\ \E k \in 1..Len(trace) :
          /\ FailedTopResult(k)
          /\ NodeOf(trace[k]).node = "block"
          /\ NodeOf(trace[k]).block_type = "repeat"
          /\ ~ParseInt(NodeOf(trace[k]).condition).ok

(***************************************************************************)
(* C24: a parse_content call on the text of the macro at hand returns a    *)
(* macro equal to it: title, description, commands, variables, metadata.   *)
(***************************************************************************)
ParsesSameText == pc = "parsed" /\ pc' = "parsed" /\ lines' = lines

C24_ParseDeterministic == [][ParsesSameText => macro' = macro]_vars

(***************************************************************************)
(* C25: blank lines and comment lines add no node and change no block: the *)
(* tree parsed from a text is the tree parsed from the text without them.  *)
(***************************************************************************)
IsCodeLine(line) == Strip(line) # <<>> /\ Strip(line)[1] # "#"

C25_CommentsSkipped ==
    pc = "parsed" =>
        ShapesOf(macro.commands)
            = ShapesOf(_parse_commands(SelectSeq(lines, IsCodeLine)).commands)

(***************************************************************************)
(* C26: the title, description, date and platform of the metadata are      *)
(* those of the comment lines before the first command: a comment line     *)
(* after it sets none of them.                                             *)
(***************************************************************************)
RECURSIVE LeadingComments(_)
LeadingComments(ls) ==
    IF ls = <<>> \/ IsCodeLine(Head(ls)) THEN <<>>
    ELSE <<Head(ls)>> \o LeadingComments(Tail(ls))

SameLabels(a, b) ==
    /\ a.title = b.title
    /\ a.description = b.description
    /\ a.date = b.date
    /\ a.platform = b.platform

C26_MetadataFromLeadingComments ==
    pc = "parsed" =>
        SameLabels(macro.metadata,
                   _extract_metadata(LeadingComments(lines), clock))

(***************************************************************************)
(* C27: every execute_macro call that was started comes to its end, and    *)
(* every find_template call that entered its loop returns.                 *)
(***************************************************************************)
C27_Terminates ==
    /\ (pc = "running") ~> (pc = "done")
    /\ (finder.pc = "loop") ~> (finder.pc = "returned")

C27_Witness ==
    /\ pc = "done"
    /\ \E k \in 1..Len(trace) :
          /\ IsRepeatLeft(k)
          /\ trace[k].success
          /\ ParseInt(NodeOf(trace[k]).condition).value >= 2
          /\ NodeOf(trace[k]).commands # <<>>

(***************************************************************************)
(* C28: no step of an execute_macro call changes the macro: its command    *)
(* tree and its variables are after the call what they were before it,     *)
(* whether the call succeeds or fails, and whatever set_variable wrote to   *)
(* the store.                                                              *)
(***************************************************************************)
InsideExecute == pc = "parsed" \/ pc = "running"

C28_MacroUnchanged == [][InsideExecute => macro' = macro]_vars

\* a finished call in which set_variable has written to the store a value
\* that the macro's variables do not hold
C28_Witness ==
    /\ pc = "done"
    /\ variables # macro.variables
    /\ \E k \in 1..Len(trace) :
          /\ trace[k].ev = "exec"
          /\ NodeOf(trace[k]).command_type = "set_variable"
          /\ trace[k].success

(***************************************************************************)
(* C29: once a path was decoded, every later _load_template call for it    *)
(* reads no file and returns the image of that decode, so that no path is  *)
(* decoded twice; a call whose decode fails leaves the cache as it was,    *)
(* and the next call for the path reads the file again.                    *)
(***************************************************************************)
DecodeSucceeded(e) == e.read /\ e.image # 0

DecodeFailed(e) == e.read /\ e.image = 0

CacheBefore(i) == IF i = 1 THEN <<>> ELSE loads[i - 1].cache

IsNextLoadOf(i, j) ==
    /\ i < j
    /\ loads[j].path = loads[i].path
    /\ \A k \in (i + 1)..(j - 1) : loads[k].path # loads[i].path

C29_DecodedOncePerPath ==
    /\ \A i \in 1..Len(loads), j \in 1..Len(loads) :
          (i < j /\ loads[j].path = loads[i].path
           /\ DecodeSucceeded(loads[i]))
              => ~loads[j].read /\ loads[j].image = loads[i].image
    /\ \A i \in 1..Len(loads) :
          DecodeFailed(loads[i]) =>
              /\ loads[i].cache = CacheBefore(i)
              /\ \A j \in 1..Len(loads) :
                    IsNextLoadOf(i, j) => loads[j].read

\* a failed decode, then a decode, then a call served from the cache, all
\* for one path
C29_Witness ==
    \E i \in 1..Len(loads), j \in 1..Len(loads), k \in 1..Len(loads) :
        /\ IsNextLoadOf(i, j)
        /\ IsNextLoadOf(j, k)
        /\ DecodeFailed(loads[i])
        /\ DecodeSucceeded(loads[j])
        /\ ~loads[k].read

(***************************************************************************)
(* C30: a found match of a w-by-h template at (px, py) under a ratio r     *)
(* has its center within one pixel of ((px + w/2)/r, (py + h/2)/r) in both *)
(* directions, and a confidence at or above the threshold.  Distances are  *)
(* compared after multiplying by 2r.                                       *)
(***************************************************************************)
Distance(a, b) == IF a >= b THEN a - b ELSE b - a

\* r times the distance is at most r
WithinOnePixel(center, corner, size, r) ==
    Distance(2 * r * center, 2 * corner + size) <= 2 * r

IsFoundMatch == finder.pc = "matched" /\ finder.result.found

C30_CenterWithinOnePixel ==
    (finder # NoCall /\ IsFoundMatch) =>
        /\ WithinOnePixel(finder.center[1], finder.max_loc[1],
                          finder.shape[2], finder.retina_scale)
        /\ WithinOnePixel(finder.center[2], finder.max_loc[2],
                          finder.shape[1], finder.retina_scale)
        /\ finder.result.confidence >= finder.confidence

\* a found match under a ratio above 1 whose center falls between two
\* logical pixels
C30_Witness ==
    /\ finder # NoCall
    /\ IsFoundMatch
    /\ finder.retina_scale > 1
    /\ (finder.max_loc[1] + finder.shape[2] \div 2) % finder.retina_scale # 0
    /\ finder.shape[2] % 2 = 1
    /\ finder.shape[1] # finder.shape[2]

(***************************************************************************)
(* C31: every line of the text that is not blank, not a comment, not a     *)
(* block header and not a terminator is the line of exactly one command of *)
(* the parsed tree.                                                        *)
(***************************************************************************)
RECURSIVE LineNumbersOf(_)
LineNumbersOf(nodes) ==
    IF nodes = <<>> THEN <<>>
    ELSE (IF Head(nodes).node = "command"
          THEN <<Head(nodes).line_number>>
          ELSE LineNumbersOf(Head(nodes).commands))
         \o LineNumbersOf(Tail(nodes))

IsCommandLine(line) ==
    /\ IsCodeLine(line)
    /\ ~StartsWithAny(Strip(line), TopBlockPrefixes)
    /\ Strip(line) \notin BlockTerminators

TimesParsed(numbers, i) ==
    Cardinality({k \in 1..Len(numbers) : numbers[k] = i})

C31_NoLineLost ==
    pc = "parsed" =>
        \A i \in 1..Len(lines) :
            IsCommandLine(lines[i])
                => TimesParsed(LineNumbersOf(macro.commands), i) = 1

(***************************************************************************)
(* C32: a command that substitutes its value and runs before any           *)
(* set_variable for the names it refers to has run.  As claimed: the text  *)
(* it uses is its value as written.  As found: the text it uses is its     *)
(* value with the references replaced from the macro's variables, with     *)
(* which execute_macro fills the store of a new executor before the first  *)
(* command, so that a top-level set_variable further down the script       *)
(* already gives its value.                                                *)
(***************************************************************************)
Substitutes(e) ==
    /\ e.ev = "exec"
    /\ NodeOf(e).command_type \in {"type", "system_command", "log"}
    /\ e.calls # <<>>

UsedText(e) == e.calls[1].args[1]

Mentions(txt, name) == Contains(txt, <<"$", "{">> \o name \o <<"}">>)

SetBefore(k, name) ==
    \E j \in 1..(k - 1) :
        /\ IsExecOf(trace[j], "set_variable")
        /\ NodeOf(trace[j]).target = name

UsesNoWrittenName(k) ==
    /\ Substitutes(trace[k])
    /\ \A name \in DOMAIN trace[k].store :
          Mentions(NodeOf(trace[k]).value, name) => ~SetBefore(k, name)

C32_UnsetReferenceVerbatim ==
    \A k \in 1..Len(trace) :
        UsesNoWrittenName(k)
            => UsedText(trace[k]) = NodeOf(trace[k]).value

C32_UnsetReferenceSeeded ==
    \A k \in 1..Len(trace) :
        UsesNoWrittenName(k)
            => UsedText(trace[k])
                   = _substitute_variables(NodeOf(trace[k]).value,
                                           macro.variables)

\* a reference replaced by the value of a set_variable that has not run
C32_Witness ==
    \E k \in 1..Len(trace) :
        /\ UsesNoWrittenName(k)
        /\ \E name \in DOMAIN macro.variables :
              Mentions(NodeOf(trace[k]).value, name)
        /\ UsedText(trace[k]) # NodeOf(trace[k]).value

(***************************************************************************)
(* C33: click_template clicks once, at the center of the match, when the   *)
(* locator found one, and does not click when it found none; it returns    *)
(* true only when that one click was made and did not raise.               *)
(***************************************************************************)
HasClicked == finder.pc = "clicked"

C33_ClickOnlyOnMatch ==
    HasClicked =>
        /\ finder.call.result.found => finder.clicks = <<finder.call.center>>
        /\ ~finder.call.result.found => finder.clicks = <<>>
        /\ finder.returned =>
              Len(finder.clicks) = 1 /\ finder.outcome = "ok"

\* a match away from the origin, clicked without error
C33_Witness ==
    /\ HasClicked
    /\ finder.call.result.found
    /\ finder.call.center # <<0, 0>>
    /\ finder.returned

(***************************************************************************)
(* C34: in every command of a parsed tree the kind tells which fields are  *)
(* filled: TYPE, SYSTEM_COMMAND and LOG have a value; CLICK has either     *)
(* coordinates x and y that are numbers, or the type template and a target *)
(* that is not empty; SET_VARIABLE has a name and a value.                 *)
(***************************************************************************)
RECURSIVE CommandsOf(_)
CommandsOf(nodes) ==
    IF nodes = <<>> THEN <<>>
    ELSE (IF Head(nodes).node = "command"
          THEN <<Head(nodes)>>
          ELSE CommandsOf(Head(nodes).commands))
         \o CommandsOf(Tail(nodes))

HasCoordinates(c) ==
    /\ DOMAIN c.parameters = {"x", "y", "type"}
    /\ c.parameters.type = "coordinates"
    /\ c.parameters.x \in Nat
    /\ c.parameters.y \in Nat

HasTemplate(c) ==
    /\ DOMAIN c.parameters = {"type"}
    /\ c.parameters.type = "template"
    /\ c.target # None
    /\ c.target # <<>>

FieldsFitKind(c) ==
    /\ c.command_type \in {"type", "system_command", "log"}
           => c.value # None
    /\ c.command_type = "click" => HasCoordinates(c) \/ HasTemplate(c)
    /\ c.command_type = "set_variable"
           => c.target # None /\ c.target # <<>> /\ c.value # None

ParsedCommands == CommandsOf(macro.commands)

C34_FieldsFitKind ==
    pc # "start" =>
        \A i \in 1..Len(ParsedCommands) : FieldsFitKind(ParsedCommands[i])

\* a tree with a coordinate click and a command with a value
C34_Witness ==
    /\ pc = "parsed"
    /\ \E i \in 1..Len(ParsedCommands), j \in 1..Len(ParsedCommands) :
          /\ ParsedCommands[i].command_type = "click"
          /\ HasCoordinates(ParsedCommands[i])
          /\ ParsedCommands[j].command_type \in {"type", "set_variable"}

(***************************************************************************)
(* C35: a `while` or `for_each` line at top level is a block of the kind   *)
(* unknown in the parsed tree; when the executor comes to it, it runs none *)
(* of its children, the block fails, and the macro ends there with a       *)
(* failure.                                                                *)
(***************************************************************************)
OpensUnknownBlock(line) ==
    /\ Indent(line) = 0
    /\ StartsWithAny(line, {<<"w","h","i","l","e"," ">>, <<"f","o","r","_","e","a","c","h"," ">>})

IsUnknownBlockAt(node, l) ==
    /\ node.node = "block"
    /\ node.block_type = "unknown"
    /\ node.line_number = l

IsUnknownBlockLeft(k) ==
    /\ trace[k].ev = "leave"
    /\ Len(trace[k].path) = 1
    /\ NodeOf(trace[k]).block_type = "unknown"

C35_UnknownBlockFails ==
    pc # "start" =>
        /\ \A l \in 1..Len(lines) :
              OpensUnknownBlock(lines[l]) =>
                  \E i \in 1..Len(macro.commands) :
                      IsUnknownBlockAt(macro.commands[i], l)
        /\ \A k \in 1..Len(trace) :
              IsUnknownBlockLeft(k) =>
                  /\ ~trace[k].success
                  /\ \A j \in 1..Len(trace) :
                        j # k => ~IsPrefix(trace[k].path, trace[j].path)
                  /\ k = Len(trace)
                  /\ pc = "done"
                  /\ ~result.success

\* a for_each block with children, reached after nothing or after commands
C35_Witness ==
    /\ pc = "done"
    /\ trace # <<>>
    /\ IsUnknownBlockLeft(Len(trace))
    /\ StartsWith(lines[1], <<"f","o","r","_","e","a","c","h"," ">>)
    /\ NodeOf(trace[Len(trace)]).commands # <<>>

(***************************************************************************)
(* C36  SimpleExecutorEnhanced.execute_atlas_file: with                    *)
(* continue_on_error=False it stops at the first failing command, executes *)
(* no later command and returns success=false; with continue_on_error=True *)
(* it attempts every command of the file in file order whatever fails and  *)
(* returns success=true, and its message carries the count of commands     *)
(* that did not fail out of all commands.                                  *)
(***************************************************************************)
IsFileCommand(l) == l # <<>> /\ l[1] # "#"

\* the command lines of a file, in file order
FileCommands(file) ==
    SelectSeq([k \in 1..Len(file) |-> Strip(file[k])], IsFileCommand)

\* the attempts made so far that failed
FailedAttempts(b) ==
    {k \in 1..Len(b.attempted) : ~b.attempted[k].result.success}

\* the attempts were made on the commands 1, 2, ... in this order
AttemptedInOrder(b) ==
    /\ Len(b.attempted) <= Len(b.commands)
    /\ \A k \in 1..Len(b.attempted) : b.attempted[k].i = k

FileReturned == batch.pc = "returned" /\ batch.exists

StoppedAtFirstFailure(b) ==
    /\ FailedAttempts(b) = {Len(b.attempted)}
    /\ ~b.result.success

AttemptedAll(b) ==
    /\ Len(b.attempted) = Len(b.commands)
    /\ b.result.success

CountInMessage(b) ==
    FailedAttempts(b) # {} =>
        FindFrom(b.result.message,
                 NatStr(Len(b.commands) - Cardinality(FailedAttempts(b)))
                 \o <<"/">> \o NatStr(Len(b.commands)), 1) # 0

C36_StopOrContinue ==
    FileReturned =>
        /\ batch.commands = FileCommands(batch.file)
        /\ AttemptedInOrder(batch)
        /\ IF batch.continue_on_error
           THEN AttemptedAll(batch) /\ CountInMessage(batch)
           ELSE IF FailedAttempts(batch) # {}
                THEN StoppedAtFirstFailure(batch)
                ELSE AttemptedAll(batch)

\* a failure that is followed by an attempt, in a file that returned success
C36_Witness ==
    /\ FileReturned
    /\ batch.continue_on_error
    /\ \E k \in FailedAttempts(batch) : k < Len(batch.attempted)
    /\ \E k \in 1..Len(batch.attempted) : batch.attempted[k].result.success

\* a failure that left a later command of the file unattempted
C36_Stopped ==
    /\ FileReturned
    /\ ~batch.continue_on_error
    /\ FailedAttempts(batch) # {}
    /\ Len(batch.attempted) < Len(batch.commands)

(***************************************************************************)
(* C37  Two macro executions interleaved on two separate executors share   *)
(* no Variable Store state: in every interleaving of their commands, each  *)
(* command of the second executor is given the store, and does what it     *)
(* does, as if that executor ran alone, and the store of the first holds   *)
(* only values written by its own macro.                                   *)
(***************************************************************************)
\* the store of an executor that runs macro m alone, after its first k
\* commands answered as recorded in tr
RECURSIVE StoreAlone(_, _, _)
StoreAlone(m, tr, k) ==
    IF k = 0 THEN Update(<<>>, m.variables)
    ELSE _execute_command(m.commands[k], StoreAlone(m, tr, k - 1),
                          tr[k].outcome).variables

AsIfAlone(e, m, store) ==
    /\ e.store = store
    /\ e.calls = _execute_command(m.commands[e.i], store, e.outcome).calls
    /\ e.success = _execute_command(m.commands[e.i], store, e.outcome).success

SecondRunsAlone ==
    \A k \in 1..Len(second.trace) :
        AsIfAlone(second.trace[k], second.macro,
                  StoreAlone(second.macro, second.trace, k - 1))

\* the values a macro writes: those the parser collected and those of its
\* set_variable commands (literals in the scripts of SpecTwo)
WrittenValues(m) ==
    {m.variables[n] : n \in DOMAIN m.variables}
    \cup {CommandsOf(m.commands)[k].value :
            k \in {j \in 1..Len(CommandsOf(m.commands)) :
                     CommandsOf(m.commands)[j].command_type = "set_variable"}}

OwnStore(store, m) == \A n \in DOMAIN store : store[n] \in WrittenValues(m)

FirstStoreIsOwn ==
    /\ pc # "start" => OwnStore(variables, macro)
    /\ \A k \in 1..Len(trace) :
          trace[k].ev = "exec" => OwnStore(trace[k].store, macro)

C37_NoSharedStore == SecondRunsAlone /\ FirstStoreIsOwn

\* the second executor typed ${y} as written while the store of the first
\* held a value for y, and both executions have returned
C37_Witness ==
    /\ \E k \in 1..Len(second.trace) :
          /\ <<"y">> \in DOMAIN second.trace[k].beside
          /\ <<"y">> \notin DOMAIN second.trace[k].store
          /\ second.trace[k].calls # <<>>
          /\ second.trace[k].calls[1].args[1] = <<"$","{","y","}">>
    /\ second.pc = "done"
    /\ pc = "done"

====
